---- MODULE Spec2Model ----
(***************************************************************************)
(* A model of the rustytracer library: tuples, matrices, rays, spheres,    *)
(* Phong lighting and the world shading pipeline.                          *)
(*                                                                         *)
(* f64 values are modelled exactly: a finite value is a reduced fraction   *)
(* <<n, d>> with d > 0, and the IEEE specials are <<0, 0>> (NaN),          *)
(* <<1, 0>> (+inf) and <<-1, 0>> (-inf).  Rounding is not modelled, and    *)
(* +0.0 and -0.0 are one value.  sqrt is exact: the inputs the             *)
(* specifications draw are those whose square roots are rational.          *)
(***************************************************************************)
EXTENDS Integers, Sequences, FiniteSets, TLC

VARIABLES
    unit,              \* the part of the library this run exercises
    steps,             \* how many mutating calls the run has made
    debug_assertions,  \* whether the build keeps debug_assert! (a debug build)
    xs,                \* Vec<Intersection> handed to hit()
    hit_result,        \* what hit() returned for xs
    mat,               \* the Matrix the cell operations act on
    mat_op,            \* the last cell operation and its outcome
    lhs,               \* left operand of Matrix * Matrix
    rhs,               \* right operand of Matrix * Matrix
    product,           \* outcome of lhs * rhs
    sq,                \* a square Matrix
    sq_inv,            \* outcome of sq.inverted() and the products derived from it
    tup_a,             \* a Tuple and the constructor that built it
    tup_b,             \* a second Tuple and its constructor
    tup_res,           \* outcome of &tup_a - &tup_b
    shape,             \* a Shape (a sphere with a transform)
    ray,               \* the Ray cast at shape
    shape_xs,          \* outcome of shape.intersections(&ray)
    light_in,          \* the arguments of lighting()
    light_out,         \* the Color lighting() returned
    world,             \* a World: its light and its objects
    world_ray,         \* the Ray handed to World::color_at
    world_out,         \* outcome of world.color_at(&world_ray)
    call,              \* one call of a constructor or of normalized(), with its arguments
    call_out,          \* what that call returned
    canvas,            \* a Canvas
    canvas_op,         \* the last get or set on canvas and its outcome
    ppm_out,           \* what canvas.to_ppm() wrote
    camera,            \* a Camera
    render_out,        \* outcome of camera.render(&world), with the calls it made
    replay             \* the canvas of the pixels computed in row-major and in another order

hitVars == <<xs, hit_result>>

cellVars == <<mat, mat_op>>

mulVars == <<lhs, rhs, product>>

invVars == <<sq, sq_inv>>

tupleVars == <<tup_a, tup_b, tup_res>>

shapeVars == <<shape, ray, shape_xs>>

lightVars == <<light_in, light_out>>

worldVars == <<world, world_ray, world_out>>

callVars == <<call, call_out>>

canvasVars == <<canvas, canvas_op, ppm_out>>

cameraVars == <<camera, render_out, replay>>

vars == <<unit, steps, debug_assertions, hitVars, cellVars, mulVars, invVars,
          tupleVars, shapeVars, lightVars, worldVars, callVars, canvasVars,
          cameraVars>>

\* The value of a variable the run's unit does not use.
Idle == [idle |-> TRUE]

\* The outcome of a call that has not been made yet.
Pending == [done |-> FALSE]

\* A failed assertion or an out-of-range slice index: the call returns nothing.
Panic == [ok |-> FALSE]

\* let x = ..; F(x): the value is computed once, where the let stands.
Let(x, F(_)) == F(x)

\* F of the value of a call, or Panic when the call panicked: a panic unwinds
\* through the caller.
Then(x, F(_)) == IF x = Panic THEN Panic ELSE F(x)

HitIdle == xs = Idle /\ hit_result = Idle

CellsIdle == mat = Idle /\ mat_op = Idle

MulIdle == lhs = Idle /\ rhs = Idle /\ product = Idle

SquareIdle == sq = Idle /\ sq_inv = Idle

TupleIdle == tup_a = Idle /\ tup_b = Idle /\ tup_res = Idle

ShapeIdle == shape = Idle /\ ray = Idle /\ shape_xs = Idle

LightIdle == light_in = Idle /\ light_out = Idle

WorldIdle == world = Idle /\ world_ray = Idle /\ world_out = Idle

CallIdle == call = Idle /\ call_out = Idle

CanvasIdle == canvas = Idle /\ canvas_op = Idle /\ ppm_out = Idle

CameraIdle == camera = Idle /\ render_out = Idle /\ replay = Idle

----------------------------------------------------------------------------
(* f64 *)

Abs(n) == IF n < 0 THEN -n ELSE n

Sgn(n) == IF n < 0 THEN -1 ELSE IF n > 0 THEN 1 ELSE 0

RECURSIVE Gcd(_, _)
Gcd(a, b) == IF b = 0 THEN a ELSE Gcd(b, a % b)

\* The f64 with value n/d (d = 0 gives an infinity, or NaN for 0/0).
Q(n, d) ==
    IF d = 0 THEN <<Sgn(n), 0>>
    ELSE LET g == Gcd(Abs(n), Abs(d))
         IN  <<Sgn(d) * (n \div g), Abs(d) \div g>>

Num(n) == <<n, 1>>

NaN == <<0, 0>>

IsNaN(a) == a = NaN

IsFinite(a) == a[2] # 0

\* a + b
FAdd(a, b) ==
    IF IsNaN(a) \/ IsNaN(b) THEN NaN
    ELSE IF ~IsFinite(a) /\ ~IsFinite(b) THEN (IF a = b THEN a ELSE NaN)
    ELSE IF ~IsFinite(a) THEN a
    ELSE IF ~IsFinite(b) THEN b
    ELSE LET g == Gcd(a[2], b[2])
         IN  Q(a[1] * (b[2] \div g) + b[1] * (a[2] \div g), (a[2] \div g) * b[2])

\* -a
FNeg(a) == <<-a[1], a[2]>>

\* a - b
FSub(a, b) == FAdd(a, FNeg(b))

\* a * b
FMul(a, b) == Q(a[1] * b[1], a[2] * b[2])

\* a / b
FDiv(a, b) ==
    IF b[1] = 0 THEN (IF b[2] = 0 THEN NaN ELSE Q(a[1], 0))
    ELSE Q(a[1] * b[2] * Sgn(b[1]), a[2] * Abs(b[1]))

\* a < b (false when either is NaN)
FLt(a, b) ==
    IF IsNaN(a) \/ IsNaN(b) THEN FALSE
    ELSE IF ~IsFinite(a) /\ ~IsFinite(b) THEN a[1] < b[1]
    ELSE a[1] * b[2] < b[1] * a[2]

\* a <= b (false when either is NaN)
FLe(a, b) == ~IsNaN(a) /\ ~IsNaN(b) /\ ~FLt(b, a)

\* a == b (false when either is NaN)
FEq(a, b) == ~IsNaN(a) /\ a = b

\* a != b (true when either is NaN)
FNe(a, b) == ~FEq(a, b)

\* |a|
FAbs(a) == <<Abs(a[1]), a[2]>>

Zero == Num(0)

One == Num(1)

\* A Vec or array of n values, the k-th (from 1) being f[k].
Vec(f, n) == SubSeq(f, 1, n)

RECURSIVE SumSeq(_)
\* The left-to-right sum 0.0 + s[1] + ... + s[n] of an accumulation loop.
SumSeq(s) ==
    IF s = <<>> THEN Zero
    ELSE FAdd(SumSeq(SubSeq(s, 1, Len(s) - 1)), s[Len(s)])

----------------------------------------------------------------------------
(* util.rs *)

\* util::EPSILON is 0.00001.  TLC's integers are 32 bits wide and the shading
\* pipeline squares sums that contain EPSILON, so the model takes a coarser
\* 1/EpsilonDenominator; EPSILON only has to be positive and small against the
\* radius of a sphere.
EpsilonDenominator == 64

EPSILON == Q(1, EpsilonDenominator)

----------------------------------------------------------------------------
(* matrix.rs *)

\* Matrix::new: the zero matrix.
MatrixNew(nrows, ncols) ==
    [nrows |-> nrows, ncols |-> ncols,
     cells |-> Vec([k \in 1..(nrows * ncols) |-> Zero], nrows * ncols)]

\* The storage index get and set compute for (r, c).
CellIndex(m, r, c) == r * m.nrows + c

\* get and set fail on an index assertion or on a slice index out of range.
CellPanics(m, r, c) ==
    \/ ~(r < m.nrows)
    \/ ~(c < m.ncols)
    \/ ~(CellIndex(m, r, c) < Len(m.cells))

\* Matrix::get
MatrixGet(m, r, c) ==
    IF CellPanics(m, r, c) THEN Panic ELSE m.cells[CellIndex(m, r, c) + 1]

\* Matrix::set
MatrixSet(m, r, c, v) ==
    IF CellPanics(m, r, c) THEN Panic
    ELSE [m EXCEPT !.cells[CellIndex(m, r, c) + 1] = v]

RECURSIVE SetDiagonal(_, _)
\* The loop of new_4x4_identity over the first n diagonal cells.
SetDiagonal(m, n) ==
    IF n = 0 THEN m ELSE MatrixSet(SetDiagonal(m, n - 1), n - 1, n - 1, One)

\* Matrix::new_4x4_identity, for any size.
Identity(n) == SetDiagonal(MatrixNew(n, n), n)

\* Matrix::new_2x2, new_3x3, new_4x4: rows of integers, flattened.
FromRows(rows) ==
    LET n == Len(rows)
    IN  [nrows |-> n, ncols |-> n,
         cells |-> Vec([k \in 1..(n * n) |->
                       Num(rows[((k - 1) \div n) + 1][((k - 1) % n) + 1])], n * n)]

RECURSIVE determinant(_)
RECURSIVE DeterminantPanics(_)
\* The two asserts of Matrix::submatrix.
SubmatrixPanics(m, row, col) ==
    \/ ~(row < m.nrows /\ col < m.ncols)
    \/ ~(m.nrows > 1 /\ m.ncols > 1)

\* Matrix::submatrix: row and col removed.  (Here and below: on a square matrix,
\* whose in-bounds get and set never panic; the specifications draw no others.)
submatrix(m, row, col) ==
    LET n == m.nrows - 1
    IN  [nrows |-> n, ncols |-> m.ncols - 1,
         cells |-> Vec([k \in 1..(n * (m.ncols - 1)) |->
            LET dr == (k - 1) \div n
                dc == (k - 1) % n
                sr == IF dr < row THEN dr ELSE dr + 1
                sc == IF dc < col THEN dc ELSE dc + 1
            IN  MatrixGet(m, sr, sc)], n * (m.ncols - 1))]

\* Matrix::minor
minor(m, row, col) == determinant(submatrix(m, row, col))

\* Matrix::cofactor
cofactor(m, row, col) ==
    LET f == IF (row + col) % 2 = 1 THEN Num(-1) ELSE One
    IN  FMul(f, minor(m, row, col))

\* cofactor -> minor -> submatrix(..).determinant() panics when either does.  The
\* asserts read the dimensions only, so the submatrix is given without its cells.
CofactorPanics(m, row, col) ==
    SubmatrixPanics(m, row, col)
        \/ DeterminantPanics([nrows |-> m.nrows - 1, ncols |-> m.ncols - 1])

\* Matrix::determinant panics on a 1x1 matrix: it is not 2x2, so the loop asks
\* for cofactor(0, 0), whose submatrix asserts nrows > 1 (a debug build stops
\* earlier, at debug_assert!(nrows >= 2 && ncols >= 2)).
DeterminantPanics(m) ==
    IF m.nrows = 2 /\ m.ncols = 2 THEN FALSE
    ELSE \E i \in 0..(m.ncols - 1) : CofactorPanics(m, 0, i)

\* Matrix::determinant
determinant(m) ==
    IF m.nrows = 2 /\ m.ncols = 2
    THEN FSub(FMul(MatrixGet(m, 0, 0), MatrixGet(m, 1, 1)),
              FMul(MatrixGet(m, 0, 1), MatrixGet(m, 1, 0)))
    ELSE SumSeq(Vec([i \in 1..m.ncols |-> FMul(m.cells[i], cofactor(m, 0, i - 1))], m.ncols))

\* Matrix::invertible
invertible(m) == FNe(determinant(m), Zero)

\* Matrix::inverted: the inverse, or Panic when assert!(self.invertible()) fails or
\* a call panics.  invertible() and the let both call determinant(), which is taken
\* once here.
inverted(m) ==
    IF DeterminantPanics(m) THEN Panic
    ELSE LET det == determinant(m)
             n == m.nrows
         IN  IF ~FNe(det, Zero) THEN Panic
             ELSE IF \E r \in 0..(m.nrows - 1), c \in 0..(m.ncols - 1) :
                         CofactorPanics(m, r, c)
             THEN Panic
             ELSE [nrows |-> m.nrows, ncols |-> m.ncols,
                   cells |-> Vec([k \in 1..(m.nrows * m.ncols) |->
                      \* im.set(c, r, cf / det) writes storage index c * nrows + r
                      LET c == (k - 1) \div n
                          r == (k - 1) % n
                      IN  FDiv(cofactor(m, r, c), det)], m.nrows * m.ncols)]

\* The asserts and slice accesses of Matrix * Matrix, over all (r, c, i) of its loops.
MulPanics(a, o) ==
    \/ a.nrows # o.ncols
    \/ \E r \in 0..(a.nrows - 1), c \in 0..(a.ncols - 1) :
          \/ \E i \in 0..(a.nrows - 1) : CellPanics(a, r, i) \/ CellPanics(o, i, c)
          \/ CellPanics(MatrixNew(o.ncols, a.nrows), r, c)

\* impl Mul for &Matrix.  When nothing panics res is square and each (r, c) of the
\* loops writes its own cell; the cells no iteration writes keep their 0.0.
MatrixMul(a, o) ==
    IF MulPanics(a, o) THEN Panic
    ELSE LET res == MatrixNew(o.ncols, a.nrows)
         IN  [res EXCEPT !.cells = Vec([k \in 1..Len(res.cells) |->
                 LET r == (k - 1) \div res.nrows
                     c == (k - 1) % res.nrows
                 IN  IF r < a.nrows /\ c < a.ncols
                     THEN SumSeq(Vec([i \in 1..a.nrows |->
                              FMul(MatrixGet(a, r, i - 1), MatrixGet(o, i - 1, c))], a.nrows))
                     ELSE Zero], Len(res.cells))]

----------------------------------------------------------------------------
(* Matrix cells: Matrix::new, get and set on matrices of every shape *)

MaxDim == 3

MaxCellSets == 2

MaxValue == 2

CellValues == {Num(v) : v \in 1..MaxValue}

InitCells ==
    /\ unit = "cells"
    /\ steps = 0
    /\ mat \in {MatrixNew(nr, nc) : nr \in 1..MaxDim, nc \in 1..MaxDim}
    /\ mat_op = [op |-> "new"]
    /\ debug_assertions = FALSE
    /\ HitIdle /\ MulIdle /\ SquareIdle /\ TupleIdle /\ ShapeIdle /\ LightIdle /\ WorldIdle
    /\ CallIdle /\ CanvasIdle /\ CameraIdle

\* m.set(r, c, v): a panic leaves the matrix as it was.
CellSet(r, c, v) ==
    /\ unit = "cells"
    /\ steps < MaxCellSets
    /\ LET after == MatrixSet(mat, r, c, v)
       IN  /\ mat' = IF after = Panic THEN mat ELSE after
           /\ mat_op' = [op |-> "set", r |-> r, c |-> c, v |-> v,
                         before |-> mat, panicked |-> after = Panic]
    /\ steps' = steps + 1
    /\ UNCHANGED <<unit, callVars, canvasVars, cameraVars, debug_assertions, hitVars, mulVars, invVars, tupleVars, shapeVars, lightVars, worldVars>>

\* m.get(r, c)
CellGet(r, c) ==
    /\ unit = "cells"
    /\ mat_op' = [op |-> "get", r |-> r, c |-> c, v |-> MatrixGet(mat, r, c),
                  before |-> mat, panicked |-> CellPanics(mat, r, c)]
    /\ UNCHANGED <<unit, callVars, canvasVars, cameraVars, steps, debug_assertions, mat, hitVars, mulVars, invVars, tupleVars, shapeVars, lightVars, worldVars>>

NextCells ==
    \/ \E r \in 0..MaxDim, c \in 0..MaxDim, v \in CellValues : CellSet(r, c, v)
    \/ \E r \in 0..MaxDim, c \in 0..MaxDim : CellGet(r, c)

SpecCells == InitCells /\ [][NextCells]_vars

\* (r, c) is inside m: r < nrows and c < ncols.
InBounds(m, r, c) == r < m.nrows /\ c < m.ncols

\* C7: after set(r, c, v) with r < nrows and c < ncols, get(r, c) returns v and
\* every other in-bounds cell reads as before, for matrices of any shape (no two
\* in-bounds coordinates share a storage cell, none indexes outside the storage);
\* get or set with r >= nrows or c >= ncols fails and changes no cell.
C7_SetGetFrame ==
    (unit = "cells" /\ mat_op.op # "new") =>
        IF InBounds(mat_op.before, mat_op.r, mat_op.c)
        THEN /\ ~mat_op.panicked
             /\ mat_op.op = "set" =>
                   /\ ~CellPanics(mat, mat_op.r, mat_op.c)
                   /\ MatrixGet(mat, mat_op.r, mat_op.c) = mat_op.v
                   /\ \A r \in 0..(mat.nrows - 1), c \in 0..(mat.ncols - 1) :
                         <<r, c>> # <<mat_op.r, mat_op.c>> =>
                             /\ ~CellPanics(mat, r, c)
                             /\ ~CellPanics(mat_op.before, r, c)
                             /\ MatrixGet(mat, r, c) = MatrixGet(mat_op.before, r, c)
        ELSE mat_op.panicked /\ mat = mat_op.before

----------------------------------------------------------------------------
(* Matrix * Matrix on operands of every shape *)

MaxFills == 2

InitMul ==
    /\ unit = "mul"
    /\ steps = 0
    /\ lhs \in {MatrixNew(nr, nc) : nr \in 1..MaxDim, nc \in 1..MaxDim}
    /\ rhs \in {MatrixNew(nr, nc) : nr \in 1..MaxDim, nc \in 1..MaxDim}
    /\ product = Pending
    /\ debug_assertions = FALSE
    /\ HitIdle /\ CellsIdle /\ SquareIdle /\ TupleIdle /\ ShapeIdle /\ LightIdle /\ WorldIdle
    /\ CallIdle /\ CanvasIdle /\ CameraIdle

\* lhs.set(r, c, v) while the operands are built.
FillLhs(r, c, v) ==
    /\ unit = "mul"
    /\ steps < MaxFills
    /\ product = Pending
    /\ ~CellPanics(lhs, r, c)
    /\ lhs' = MatrixSet(lhs, r, c, v)
    /\ steps' = steps + 1
    /\ UNCHANGED <<unit, callVars, canvasVars, cameraVars, debug_assertions, rhs, product, hitVars, cellVars, invVars, tupleVars, shapeVars, lightVars, worldVars>>

\* rhs.set(r, c, v) while the operands are built.
FillRhs(r, c, v) ==
    /\ unit = "mul"
    /\ steps < MaxFills
    /\ product = Pending
    /\ ~CellPanics(rhs, r, c)
    /\ rhs' = MatrixSet(rhs, r, c, v)
    /\ steps' = steps + 1
    /\ UNCHANGED <<unit, callVars, canvasVars, cameraVars, debug_assertions, lhs, product, hitVars, cellVars, invVars, tupleVars, shapeVars, lightVars, worldVars>>

\* &lhs * &rhs
Multiply ==
    /\ unit = "mul"
    /\ product = Pending
    /\ product' = [done |-> TRUE, out |-> MatrixMul(lhs, rhs)]
    /\ UNCHANGED <<unit, callVars, canvasVars, cameraVars, steps, debug_assertions, lhs, rhs, hitVars, cellVars, invVars, tupleVars, shapeVars, lightVars, worldVars>>

NextMul ==
    \/ \E r \in 0..(MaxDim - 1), c \in 0..(MaxDim - 1), v \in CellValues : FillLhs(r, c, v)
    \/ \E r \in 0..(MaxDim - 1), c \in 0..(MaxDim - 1), v \in CellValues : FillRhs(r, c, v)
    \/ Multiply

SpecMul == InitMul /\ [][NextMul]_vars

\* Row r of a, as the cells get(r, 0), get(r, 1), ... return them.
RowOf(a, r) == [i \in 1..a.ncols |-> MatrixGet(a, r, i - 1)]

\* Column c of a.
ColumnOf(a, c) == [i \in 1..a.nrows |-> MatrixGet(a, i - 1, c)]

\* C6: Matrix * Matrix succeeds exactly when the left operand's column count equals
\* the right operand's row count, for operands of any shape; the result then has
\* the left operand's row count and the right operand's column count and its cell
\* (r, c) is the dot product of row r of the left with column c of the right.
C6_MulDimensions ==
    (unit = "mul" /\ product # Pending) =>
        /\ (product.out # Panic) <=> (lhs.ncols = rhs.nrows)
        /\ product.out # Panic =>
              /\ product.out.nrows = lhs.nrows
              /\ product.out.ncols = rhs.ncols
              /\ \A r \in 0..(lhs.nrows - 1), c \in 0..(rhs.ncols - 1) :
                    /\ ~CellPanics(product.out, r, c)
                    /\ MatrixGet(product.out, r, c) =
                          SumSeq(Vec([i \in 1..lhs.ncols |-> FMul(RowOf(lhs, r)[i], ColumnOf(rhs, c)[i])], lhs.ncols))

\* The same on square operands of one size, where the code's loops are right.
SquareProductIsDotProduct ==
    (unit = "mul" /\ product # Pending /\ lhs.nrows = lhs.ncols
        /\ rhs.nrows = rhs.ncols /\ lhs.nrows = rhs.nrows) =>
        /\ product.out # Panic
        /\ product.out.nrows = lhs.nrows
        /\ product.out.ncols = rhs.ncols
        /\ \A r \in 0..(lhs.nrows - 1), c \in 0..(rhs.ncols - 1) :
              MatrixGet(product.out, r, c) =
                  SumSeq(Vec([i \in 1..lhs.ncols |-> FMul(RowOf(lhs, r)[i], ColumnOf(rhs, c)[i])], lhs.ncols))

----------------------------------------------------------------------------
(* Square matrices: determinant, invertible, inverted *)

MaxSize == 4

MaxSquareSets == 1

MaxCell == 1

SquareCells == {Num(v) : v \in -1..MaxCell}

\* Identities, and the matrices of the determinant and inversion tests.
SeedMatrices ==
    {Identity(n) : n \in 2..MaxSize} \cup
    { FromRows(<< <<1, 5>>, <<-3, 2>> >>),
      FromRows(<< <<1, 2, 6>>, <<-5, 8, -4>>, <<2, 6, 4>> >>),
      FromRows(<< <<-5, 2, 6, -8>>, <<1, -5, 1, 8>>, <<7, 7, -6, -7>>, <<1, -3, 7, 4>> >>),
      FromRows(<< <<-4, 2, -2, -3>>, <<9, 6, 2, 6>>, <<0, -5, 1, -5>>, <<0, 0, 0, 0>> >>) }

InitSquare ==
    /\ unit = "square"
    /\ steps = 0
    /\ sq \in SeedMatrices
    /\ sq_inv = Pending
    /\ debug_assertions = FALSE
    /\ HitIdle /\ CellsIdle /\ MulIdle /\ TupleIdle /\ ShapeIdle /\ LightIdle /\ WorldIdle
    /\ CallIdle /\ CanvasIdle /\ CameraIdle

\* sq.set(r, c, v)
SquareSet(r, c, v) ==
    /\ unit = "square"
    /\ steps < MaxSquareSets
    /\ sq_inv = Pending
    /\ ~CellPanics(sq, r, c)
    /\ sq' = MatrixSet(sq, r, c, v)
    /\ steps' = steps + 1
    /\ UNCHANGED <<unit, callVars, canvasVars, cameraVars, debug_assertions, sq_inv, hitVars, cellVars, mulVars, tupleVars, shapeVars, lightVars, worldVars>>

\* sq.inverted(), &sq * &identity and &sq * &sq.inverted()
Invert ==
    /\ unit = "square"
    /\ sq_inv = Pending
    /\ LET inv == inverted(sq)
       IN  sq_inv' = [done |-> TRUE,
                      inverse |-> inv,
                      by_identity |-> MatrixMul(sq, Identity(sq.nrows)),
                      by_inverse |-> IF inv = Panic THEN Panic ELSE MatrixMul(sq, inv)]
    /\ UNCHANGED <<unit, callVars, canvasVars, cameraVars, steps, debug_assertions, sq, hitVars, cellVars, mulVars, tupleVars, shapeVars, lightVars, worldVars>>

NextSquare ==
    \/ \E r \in 0..(MaxSize - 1), c \in 0..(MaxSize - 1), v \in SquareCells : SquareSet(r, c, v)
    \/ Invert

SpecSquare == InitSquare /\ [][NextSquare]_vars

\* What C8 says of sq and the outcome of sq.inverted().
InvertedContract ==
    /\ invertible(sq) <=> determinant(sq) # Zero
    /\ determinant(sq) = Zero => sq_inv.inverse = Panic
    /\ determinant(sq) # Zero =>
          /\ sq_inv.inverse # Panic
          /\ sq_inv.inverse.nrows = sq.nrows
          /\ sq_inv.inverse.ncols = sq.ncols
          /\ Len(sq_inv.inverse.cells) = sq.nrows * sq.ncols

\* What C9 says of sq, sq * identity and sq * sq.inverted().  Cells are compared
\* exactly, which implies the approximate equality of Matrix::eq.
InverseLaws ==
    /\ sq_inv.by_identity = sq
    /\ invertible(sq) =>
          /\ sq_inv.inverse # Panic
          /\ sq_inv.by_inverse = Identity(sq.nrows)
          /\ \A r \in 0..(sq.nrows - 1), c \in 0..(sq.ncols - 1) :
                MatrixGet(sq_inv.inverse, c, r) =
                    FDiv(cofactor(sq, r, c), determinant(sq))

\* C8: invertible() holds exactly when determinant() != 0; inverted() of a matrix
\* with determinant 0 fails and returns no matrix; inverted() of a matrix with a
\* non-zero determinant returns a matrix of the same dimensions.
C8_InvertedFailsIffSingular ==
    (unit = "square" /\ sq_inv # Pending) => InvertedContract

\* C9: for every square matrix M (2x2, 3x3, 4x4), M * identity = M, and if M is
\* invertible then M * inverted(M) = identity, where cell [c][r] of inverted(M) is
\* cofactor(r, c) / determinant(M).
C9_InverseIsInverse ==
    (unit = "square" /\ sq_inv # Pending) => InverseLaws

\* Both hold of the 3x3 and 4x4 matrices: only the 2x2 inversion fails.
InverseHoldsFrom3x3 ==
    (unit = "square" /\ sq_inv # Pending /\ sq.nrows >= 3) =>
        InvertedContract /\ InverseLaws

\* inverted() of a 2x2 matrix panics whatever its determinant is.
Inverted2x2AlwaysPanics ==
    (unit = "square" /\ sq_inv # Pending /\ sq.nrows = 2) => sq_inv.inverse = Panic

----------------------------------------------------------------------------
(* tuple.rs *)

\* `f as i32`: truncation toward zero, NaN to 0, saturation at the i32 range.
AsI32(a) ==
    IF IsNaN(a) THEN 0
    ELSE IF ~IsFinite(a) THEN (IF a[1] > 0 THEN 2147483647 ELSE -2147483647 - 1)
    ELSE Sgn(a[1]) * (Abs(a[1]) \div a[2])

\* The largest k in lo..hi with k * k <= n, where lo * lo <= n: the interval is
\* cut in sixteen until it is short enough to search.
RECURSIVE Root(_, _, _)
Root(n, lo, hi) ==
    IF hi - lo < 16
    THEN CHOOSE k \in lo..hi : k * k <= n /\ (k = hi \/ (k + 1) * (k + 1) > n)
    ELSE LET step == (hi - lo) \div 16
             cut(i) == lo + i * step
             j == CHOOSE i \in 0..16 :
                      cut(i) * cut(i) <= n /\ (i = 16 \/ cut(i + 1) * cut(i + 1) > n)
         IN  Root(n, cut(j), IF j = 16 THEN hi ELSE cut(j + 1) - 1)

\* The largest k with k * k <= n; 46340 is the largest k whose square is an i32.
ISqrt(n) == Root(n, 0, IF n < 46340 THEN n ELSE 46340)

IsSquare(n) == n >= 0 /\ ISqrt(n) * ISqrt(n) = n

\* Whether f64::sqrt(a) is a value of this model: a is NaN, infinite, negative,
\* or a ratio of squares.
ExactSqrt(a) ==
    \/ ~IsFinite(a)
    \/ a[1] < 0
    \/ IsSquare(a[1]) /\ IsSquare(a[2])

\* f64::sqrt(a), for the a of ExactSqrt
Sqrt(a) ==
    IF IsNaN(a) THEN NaN
    ELSE IF a[1] < 0 THEN NaN
    ELSE IF ~IsFinite(a) THEN a
    ELSE Q(CHOOSE k \in {ISqrt(a[1])} : k * k = a[1],
           CHOOSE k \in {ISqrt(a[2])} : k * k = a[2])

TupleNew(x, y, z, w) == <<x, y, z, w>>

new_point(x, y, z) == TupleNew(x, y, z, One)

new_vector(x, y, z) == TupleNew(x, y, z, Zero)

ORIGIN == TupleNew(Zero, Zero, Zero, One)

\* Tuple::w
W(t) == t[4]

is_point(t) == AsI32(W(t)) = 1

is_vector(t) == AsI32(W(t)) = 0

\* Tuple::set, i in 0..3
TupleSet(t, i, v) == [t EXCEPT ![i + 1] = v]

dot(a, b) ==
    FAdd(FAdd(FAdd(FMul(a[1], b[1]), FMul(a[2], b[2])), FMul(a[3], b[3])),
         FMul(a[4], b[4]))

magnitude(t) ==
    Sqrt(FAdd(FAdd(FAdd(FMul(t[1], t[1]), FMul(t[2], t[2])), FMul(t[3], t[3])),
              FMul(t[4], t[4])))

TupleNeg(t) == TupleNew(FNeg(t[1]), FNeg(t[2]), FNeg(t[3]), FNeg(t[4]))

TupleAdd(a, b) ==
    TupleNew(FAdd(a[1], b[1]), FAdd(a[2], b[2]), FAdd(a[3], b[3]), FAdd(a[4], b[4]))

TupleSubKeepingW(a, b) ==
    TupleNew(FSub(a[1], b[1]), FSub(a[2], b[2]), FSub(a[3], b[3]), a[4])

TupleSub(a, b) ==
    TupleNew(FSub(a[1], b[1]), FSub(a[2], b[2]), FSub(a[3], b[3]), FSub(a[4], b[4]))

\* &Tuple * f64
TupleScale(t, k) == TupleNew(FMul(t[1], k), FMul(t[2], k), FMul(t[3], k), FMul(t[4], k))

normalized(t) ==
    Let(magnitude(t), LAMBDA m :
        TupleNew(FDiv(t[1], m), FDiv(t[2], m), FDiv(t[3], m), FDiv(t[4], m)))

----------------------------------------------------------------------------
(* Points and vectors: a run builds two tuples and subtracts them. *)

MaxCoord == 1

Coords == {Q(n, 2) : n \in (-2 * MaxCoord)..(2 * MaxCoord)}

Built(how, x, y, z) ==
    [how |-> how,
     t |-> IF how = "new_point" THEN new_point(x, y, z) ELSE new_vector(x, y, z)]

InitTuple ==
    /\ unit = "tuple"
    /\ steps = 0
    /\ debug_assertions = FALSE
    /\ tup_a = Pending
    /\ tup_b = Pending
    /\ tup_res = Pending
    /\ HitIdle /\ CellsIdle /\ MulIdle /\ SquareIdle /\ ShapeIdle /\ LightIdle /\ WorldIdle
    /\ CallIdle /\ CanvasIdle /\ CameraIdle

\* let a = Tuple::new_point(x, y, z) or Tuple::new_vector(x, y, z)
BuildA(how, x, y, z) ==
    /\ unit = "tuple"
    /\ tup_a = Pending
    /\ tup_a' = Built(how, x, y, z)
    /\ UNCHANGED <<unit, callVars, canvasVars, cameraVars, steps, debug_assertions, tup_b, tup_res, hitVars, cellVars,
                   mulVars, invVars, shapeVars, lightVars, worldVars>>

\* let b = Tuple::new_point(x, y, z) or Tuple::new_vector(x, y, z)
BuildB(how, x, y, z) ==
    /\ unit = "tuple"
    /\ tup_a # Pending
    /\ tup_b = Pending
    /\ tup_b' = Built(how, x, y, z)
    /\ UNCHANGED <<unit, callVars, canvasVars, cameraVars, steps, debug_assertions, tup_a, tup_res, hitVars, cellVars,
                   mulVars, invVars, shapeVars, lightVars, worldVars>>

\* &a - &b
Subtract ==
    /\ unit = "tuple"
    /\ tup_a # Pending
    /\ tup_b # Pending
    /\ tup_res = Pending
    /\ tup_res' = [done |-> TRUE, t |-> TupleSub(tup_a.t, tup_b.t)]
    /\ UNCHANGED <<unit, callVars, canvasVars, cameraVars, steps, debug_assertions, tup_a, tup_b, hitVars, cellVars,
                   mulVars, invVars, shapeVars, lightVars, worldVars>>

NextTuple ==
    \/ \E how \in {"new_point", "new_vector"}, x \in Coords, y \in Coords, z \in {Zero, One} :
          BuildA(how, x, y, z)
    \/ \E how \in {"new_point", "new_vector"}, x \in Coords, y \in Coords, z \in {Zero, One} :
          BuildB(how, x, y, z)
    \/ Subtract

SpecTuple == InitTuple /\ [][NextTuple]_vars

\* What C10 says of one constructed tuple.
ConstructorKind(b) ==
    /\ b.how = "new_point" => is_point(b.t) /\ ~is_vector(b.t) /\ W(b.t) = One
    /\ b.how = "new_vector" => is_vector(b.t) /\ ~is_point(b.t) /\ W(b.t) = Zero

\* What C10 says of a difference.
DifferenceKind ==
    /\ (tup_a.how = "new_point" /\ tup_b.how = "new_point") => is_vector(tup_res.t)
    /\ (tup_a.how = "new_point" /\ tup_b.how = "new_vector") => is_point(tup_res.t)
    /\ (tup_a.how = "new_vector" /\ tup_b.how = "new_vector") => is_vector(tup_res.t)

\* C10: new_point gives a tuple with is_point true, is_vector false and w = 1.0;
\* new_vector gives one with is_vector true, is_point false and w = 0.0; a point
\* minus a point is a vector, a point minus a vector is a point, and a vector
\* minus a vector is a vector.
C10_PointVectorAlgebra ==
    unit = "tuple" =>
        /\ tup_a # Pending => ConstructorKind(tup_a)
        /\ tup_b # Pending => ConstructorKind(tup_b)
        /\ tup_res # Pending => DifferenceKind

\* A point has been subtracted from a point with other coordinates.
C10_Witness ==
    /\ unit = "tuple"
    /\ tup_res # Pending
    /\ tup_a.how = "new_point"
    /\ tup_b.how = "new_point"
    /\ tup_a.t # tup_b.t
    /\ is_vector(tup_res.t)

----------------------------------------------------------------------------
(* shape.rs: Intersection, hit *)

\* Intersection { shape, distance }; shape is the handle of the Shape the record refers to.
Intersection(distance, sh) == [distance |-> distance, shape |-> sh]

\* The positions of xs that pass .filter(|i| i.distance >= 0.0), in order.
NonNegative(xs0) ==
    SelectSeq([k \in 1..Len(xs0) |-> k], LAMBDA k : FLe(Zero, xs0[k].distance))

\* The comparison closure handed to min_by.
Compare(l, r) == IF FLt(l.distance, r.distance) THEN "Less" ELSE "Greater"

\* A min_by that keeps the element held so far when the next one is equal to it.
RECURSIVE MinByKeepingFirst(_, _)
MinByKeepingFirst(xs0, ks) ==
    IF Len(ks) = 1 THEN ks[1]
    ELSE Let(MinByKeepingFirst(xs0, SubSeq(ks, 1, Len(ks) - 1)), LAMBDA x :
             IF FLt(xs0[ks[Len(ks)]].distance, xs0[x].distance) THEN ks[Len(ks)] ELSE x)

\* Iterator::min_by over the positions ks: a fold that keeps the element held so
\* far unless the comparison with the next one returns Greater.
RECURSIVE MinBy(_, _)
MinBy(xs0, ks) ==
    IF Len(ks) = 1 THEN ks[1]
    ELSE LET x == MinBy(xs0, SubSeq(ks, 1, Len(ks) - 1))
             y == ks[Len(ks)]
         IN  IF Compare(xs0[x], xs0[y]) = "Greater" THEN y ELSE x

\* Option::None
None == [some |-> FALSE]

\* hit() without its filter.
HitPositionUnfiltered(xs0) ==
    LET ks == [k \in 1..Len(xs0) |-> k]
    IN  IF Len(ks) = 0 THEN 0 ELSE MinBy(xs0, ks)

\* The position in xs0 of the element hit(&xs0) refers to, 0 for None.
HitPosition(xs0) ==
    LET ks == NonNegative(xs0)
    IN  IF Len(ks) = 0 THEN 0 ELSE MinBy(xs0, ks)

\* hit(&xs0): None, or Some of a reference into xs0
hit(xs0) ==
    LET k == HitPosition(xs0)
    IN  IF k = 0 THEN None ELSE [some |-> TRUE, at |-> k, value |-> xs0[k]]

----------------------------------------------------------------------------
(* hit(): a run pushes intersections in any order, then asks for the hit. *)

MaxLen == 3

MaxDistance == 2

Distances == {Num(d) : d \in (-MaxDistance)..MaxDistance} \cup {NaN}

Handles == {1, 2}

InitHit ==
    /\ unit = "hit"
    /\ steps = 0
    /\ debug_assertions = FALSE
    /\ xs = <<>>
    /\ hit_result = Pending
    /\ CellsIdle /\ MulIdle /\ SquareIdle /\ TupleIdle /\ ShapeIdle /\ LightIdle /\ WorldIdle
    /\ CallIdle /\ CanvasIdle /\ CameraIdle

\* xs.push(Intersection { shape, distance: d })
Push(d, sh) ==
    /\ unit = "hit"
    /\ hit_result = Pending
    /\ Len(xs) < MaxLen
    /\ xs' = Append(xs, Intersection(d, sh))
    /\ UNCHANGED <<unit, callVars, canvasVars, cameraVars, steps, debug_assertions, hit_result, cellVars, mulVars, invVars,
                   tupleVars, shapeVars, lightVars, worldVars>>

\* hit(&xs)
Hit ==
    /\ unit = "hit"
    /\ hit_result = Pending
    /\ hit_result' = [done |-> TRUE, found |-> hit(xs)]
    /\ UNCHANGED <<unit, callVars, canvasVars, cameraVars, steps, debug_assertions, xs, cellVars, mulVars, invVars,
                   tupleVars, shapeVars, lightVars, worldVars>>

NextHit ==
    \/ \E d \in Distances, sh \in Handles : Push(d, sh)
    \/ Hit

SpecHit == InitHit /\ [][NextHit]_vars

\* The positions of xs whose distance is >= 0.
Candidates == {k \in 1..Len(xs) : FLe(Zero, xs[k].distance)}

\* C1: hit() returns an intersection whose distance is >= 0 and no larger than
\* any other distance >= 0 in the sequence; it returns none exactly when no
\* distance is >= 0; the order of the sequence does not matter.
C1_HitIsNearestNonNegative ==
    (unit = "hit" /\ hit_result # Pending) =>
        LET found == hit_result.found
        IN  /\ found = None <=> Candidates = {}
            /\ found # None =>
                  /\ found.at \in Candidates
                  /\ found.value = xs[found.at]
                  /\ \A k \in Candidates : FLe(found.value.distance, xs[k].distance)

\* hit() picked distance 0 out of an unsorted sequence that also holds a negative
\* and a larger distance ahead of it.
C1_Witness ==
    /\ unit = "hit"
    /\ hit_result # Pending
    /\ hit_result.found # None
    /\ hit_result.found.value.distance = Zero
    /\ hit_result.found.at = 3
    /\ FLt(Zero, xs[1].distance)
    /\ FLt(xs[2].distance, Zero)

\* C29: when several intersections with a distance >= 0 share the smallest such
\* distance, hit() returns the last of them in the sequence.
C29_HitIsLastOfTies ==
    (unit = "hit" /\ hit_result # Pending /\ hit_result.found # None) =>
        \A k \in Candidates :
            xs[k].distance = hit_result.found.value.distance => k <= hit_result.found.at

\* In a sequence in ascending order whose first two intersections, of different
\* shapes, share the smallest distance, hit() returned the second, not the
\* first entry, which is the one color_at shades.
C29_Witness ==
    /\ unit = "hit"
    /\ hit_result # Pending
    /\ Len(xs) = 3
    /\ xs[1].distance = One
    /\ xs[2].distance = One
    /\ xs[3].distance = Num(2)
    /\ xs[1].shape # xs[2].shape
    /\ hit_result.found # None
    /\ hit_result.found.at = 2
    /\ hit_result.found.value.shape # xs[1].shape

----------------------------------------------------------------------------
(* color.rs, light.rs: Color, Material, PointLight *)

Color(r, g, b) == <<r, g, b>>

BLACK == Color(Zero, Zero, Zero)

WHITE == Color(One, One, One)

ColorAdd(a, b) == Color(FAdd(a[1], b[1]), FAdd(a[2], b[2]), FAdd(a[3], b[3]))

\* &Color * f64
ColorScale(a, k) == Color(FMul(a[1], k), FMul(a[2], k), FMul(a[3], k))

\* &Color * &Color
ColorMul(a, b) == Color(FMul(a[1], b[1]), FMul(a[2], b[2]), FMul(a[3], b[3]))

Material(color, ambient, diffuse, specular, shininess) ==
    [color |-> color, ambient |-> ambient, diffuse |-> diffuse,
     specular |-> specular, shininess |-> shininess]

MaterialDefault == Material(WHITE, Q(1, 10), Q(9, 10), Q(9, 10), Num(200))

\* PointLight::new panics in a debug build when position is not a point.
PointLightNewPanics(debug, position) == debug /\ ~is_point(position)

PointLightNew(intensity, position) == [intensity |-> intensity, position |-> position]

----------------------------------------------------------------------------
(* matrix.rs: Matrix * Tuple; transform.rs; ray.rs *)

MulTuplePanics(m, t) ==
    \/ m.ncols # 4
    \/ m.nrows > 4
    \/ \E r \in 0..(m.nrows - 1), c \in 0..(m.ncols - 1) : CellPanics(m, r, c)

\* &Matrix * &Tuple
MatrixMulTuple(m, t) ==
    Vec([i \in 1..4 |->
            IF i <= m.nrows
            THEN SumSeq(Vec([c \in 1..m.ncols |-> FMul(MatrixGet(m, i - 1, c - 1), t[c])],
                            m.ncols))
            ELSE Zero], 4)

translation(dx, dy, dz) ==
    MatrixSet(MatrixSet(MatrixSet(Identity(4), 0, 3, dx), 1, 3, dy), 2, 3, dz)

scaling(x, y, z) ==
    MatrixSet(MatrixSet(MatrixSet(Identity(4), 0, 0, x), 1, 1, y), 2, 2, z)

\* Ray::new: the ray, or Panic in a debug build when origin is not a point or
\* direction is not a vector; a release build compiles the checks out.
RayNew(debug, origin, direction) ==
    IF debug /\ (~is_point(origin) \/ ~is_vector(direction)) THEN Panic
    ELSE [origin |-> origin, direction |-> direction]

\* Ray::from_triplets
from_triplets(o, d) ==
    [origin |-> new_point(o[1], o[2], o[3]), direction |-> new_vector(d[1], d[2], d[3])]

\* Ray::position
position(r, t) == TupleAdd(r.origin, TupleScale(r.direction, t))

\* Ray::transformed: the ray, or Panic when a multiplication or Ray::new panics
transformed(debug, r, m) ==
    IF MulTuplePanics(m, r.origin) \/ MulTuplePanics(m, r.direction) THEN Panic
    ELSE RayNew(debug, MatrixMulTuple(m, r.origin), MatrixMulTuple(m, r.direction))

----------------------------------------------------------------------------
(* shape.rs: Shape, Object::intersections *)

ShapeNew(object) ==
    [transform |-> Identity(4), material |-> MaterialDefault, object |-> object]

with_transform_and_material(object, transform, material) ==
    [transform |-> transform, material |-> material, object |-> object]

\* a, b, c and the discriminant of the quadratic Object::intersections solves
Quadratic(trans_ray) ==
    Let(TupleSub(trans_ray.origin, ORIGIN), LAMBDA sphere_to_ray :
    Let(dot(trans_ray.direction, trans_ray.direction), LAMBDA a :
    Let(FMul(Num(2), dot(trans_ray.direction, sphere_to_ray)), LAMBDA b :
    Let(FSub(dot(sphere_to_ray, sphere_to_ray), One), LAMBDA c :
        [a |-> a, b |-> b, c |-> c,
         discriminant |-> FSub(FMul(b, b), FMul(FMul(Num(4), a), c))]))))

\* Object::intersections for Object::Sphere; sh is the handle of the Shape
ObjectIntersections(sh, trans_ray) ==
    Let(Quadratic(trans_ray), LAMBDA q :
        IF FLt(q.discriminant, Zero) THEN <<>>
        ELSE Let(Sqrt(q.discriminant), LAMBDA dis_sqrt :
             Let(FMul(Num(2), q.a), LAMBDA a2 :
                 <<Intersection(FDiv(FSub(FNeg(q.b), dis_sqrt), a2), sh),
                   Intersection(FDiv(FAdd(FNeg(q.b), dis_sqrt), a2), sh)>>)))

\* Shape::intersections, of the Shape s whose handle is sh: the intersections,
\* or Panic when inverted() or Ray::new panics
ShapeIntersections(debug, s, sh, r) ==
    Then(inverted(s.transform), LAMBDA it :
    Then(transformed(debug, r, it), LAMBDA trans_ray :
        ObjectIntersections(sh, trans_ray)))

----------------------------------------------------------------------------
(* Sphere intersections: a run gives a sphere a transform, builds a ray and
   intersects them. *)

MaxTransforms == 1

MaxOffset == 2

\* The transforms a sphere is given; the last one has no inverse.
Transforms ==
    {translation(Zero, Zero, Num(k)) : k \in {-1, 3}}
        \cup {scaling(Num(2), Num(2), Num(2)), scaling(One, Q(1, 2), One),
              scaling(Zero, One, One)}

RayOrigins == {<<Zero, Num(y), Num(z)>> : y \in 0..MaxOffset, z \in {-5, 0, 5}}

\* The last direction is the zero vector.
RayDirections ==
    {<<Zero, Zero, One>>, <<Zero, Zero, Num(-1)>>, <<Zero, Zero, Num(2)>>,
     <<Zero, One, Zero>>, <<Zero, Num(3), Num(4)>>, <<Zero, Zero, Zero>>}

\* The handle of the sphere of this unit.
TheSphere == 1

\* Whether the square root Shape::intersections takes for s and r is a value of
\* the model.
ExactRoots(s, r) ==
    Let(inverted(s.transform), LAMBDA it :
        IF it = Panic THEN TRUE
        ELSE ExactSqrt(Quadratic(transformed(FALSE, r, it)).discriminant))

InitSphere ==
    /\ unit = "sphere"
    /\ steps = 0
    /\ debug_assertions \in BOOLEAN
    /\ shape = ShapeNew("Sphere")
    /\ ray = Pending
    /\ shape_xs = Pending
    /\ HitIdle /\ CellsIdle /\ MulIdle /\ SquareIdle /\ TupleIdle /\ LightIdle /\ WorldIdle
    /\ CallIdle /\ CanvasIdle /\ CameraIdle

\* shape.transform = t
SetTransform(t) ==
    /\ unit = "sphere"
    /\ ray = Pending
    /\ steps < MaxTransforms
    /\ steps' = steps + 1
    /\ shape' = [shape EXCEPT !.transform = t]
    /\ UNCHANGED <<unit, callVars, canvasVars, cameraVars, debug_assertions, ray, shape_xs, hitVars, cellVars, mulVars,
                   invVars, tupleVars, lightVars, worldVars>>

\* let ray = Ray::from_triplets(o, d)
CastRay(o, d) ==
    /\ unit = "sphere"
    /\ ray = Pending
    /\ ExactRoots(shape, from_triplets(o, d))
    /\ ray' = from_triplets(o, d)
    /\ UNCHANGED <<unit, callVars, canvasVars, cameraVars, steps, debug_assertions, shape, shape_xs, hitVars, cellVars,
                   mulVars, invVars, tupleVars, lightVars, worldVars>>

\* shape.intersections(&ray)
Intersect ==
    /\ unit = "sphere"
    /\ ray # Pending
    /\ shape_xs = Pending
    /\ shape_xs' =
          [done |-> TRUE,
           out |-> ShapeIntersections(debug_assertions, shape, TheSphere, ray),
           trans_ray |-> Then(inverted(shape.transform), LAMBDA it :
                             transformed(debug_assertions, ray, it))]
    /\ UNCHANGED <<unit, callVars, canvasVars, cameraVars, steps, debug_assertions, shape, ray, hitVars, cellVars,
                   mulVars, invVars, tupleVars, lightVars, worldVars>>

NextSphere ==
    \/ \E t \in Transforms : SetTransform(t)
    \/ \E o \in RayOrigins, d \in RayDirections : CastRay(o, d)
    \/ Intersect

SpecSphere == InitSphere /\ [][NextSphere]_vars

ZeroVector == new_vector(Zero, Zero, Zero)

\* What C5 says of the intersections out of a sphere and the ray that, taken to
\* object space, is trans_ray.
TwoRootsInOrder(out, trans_ray) ==
    Let(Quadratic(trans_ray), LAMBDA q :
        /\ out = <<>> <=> FLt(q.discriminant, Zero)
        /\ out # <<>> =>
              /\ Len(out) = 2
              /\ FLe(out[1].distance, out[2].distance)
              /\ q.discriminant = Zero => out[1].distance = out[2].distance
              /\ out[1].shape = TheSphere
              /\ out[2].shape = TheSphere
              \* the ray starts inside the sphere
              /\ FLt(q.c, Zero) =>
                    FLt(out[1].distance, Zero) /\ FLt(Zero, out[2].distance)
              \* the sphere is entirely behind the ray
              /\ (FLt(Zero, q.c) /\ FLt(Zero, q.b)) =>
                    FLt(out[1].distance, Zero) /\ FLt(out[2].distance, Zero))

\* C5 as the specification states it: intersections() of a sphere returns an empty
\* sequence exactly when the discriminant is negative, and otherwise exactly two
\* intersections, the first with distance <= the second (equal when tangent), both
\* referring to the shape; negative distances are kept.
C5_TwoRootsAnyRay ==
    (unit = "sphere" /\ shape_xs # Pending /\ shape_xs.out # Panic) =>
        TwoRootsInOrder(shape_xs.out, shape_xs.trans_ray)

\* The above holds of every ray whose direction is not the zero vector; for a ray
\* whose direction is the zero vector intersections() returns two intersections
\* referring to the shape whose distances are both NaN, so neither is <= the other.
TwoRootsUnlessZeroDirection ==
    (unit = "sphere" /\ shape_xs # Pending /\ shape_xs.out # Panic) =>
        IF ray.direction # ZeroVector
        THEN TwoRootsInOrder(shape_xs.out, shape_xs.trans_ray)
        ELSE /\ Len(shape_xs.out) = 2
             /\ \A k \in 1..2 : /\ IsNaN(shape_xs.out[k].distance)
                                /\ shape_xs.out[k].shape = TheSphere

----------------------------------------------------------------------------
(* light.rs: lighting *)

\* Tuple::reflected, which lighting() calls: in - normal * 2 * dot(in, normal)
reflected(in, normal) ==
    TupleSub(in, TupleScale(TupleScale(normal, Num(2)), dot(in, normal)))

Square(a) == FMul(a, a)

\* x to the power k, a whole number >= 0: 1.0 when k is 0, x itself when x is 0.0
\* or 1.0, and otherwise by repeated squaring
RECURSIVE PowN(_, _)
PowN(x, k) ==
    IF k = 0 THEN One
    ELSE IF x = Zero \/ x = One THEN x
    ELSE IF k % 2 = 0 THEN Square(PowN(x, k \div 2))
    ELSE FMul(PowN(x, k - 1), x)

\* f64::powf(x, y) for y a whole number >= 0 (powf(x, 0.0) is 1.0 for every x)
powf(x, y) == PowN(x, y[1])

\* The debug_assert! lines of lighting()
LightingPanics(debug, pt, eye_vec, normal_vec) ==
    debug /\ (~is_point(pt) \/ ~is_vector(eye_vec) \/ ~is_vector(normal_vec))

\* The ambient term without the light's intensity.
AmbientOfMaterialOnly(m, light) == ColorScale(m.color, m.ambient)

\* let ambient = &effective_color * m.ambient
Ambient(m, light) == ColorScale(ColorMul(m.color, light.intensity), m.ambient)

\* The locals ambient, diffuse and specular of lighting() at its last line
PhongTerms(m, light, pt, eye_vec, normal_vec) ==
    Let(ColorMul(m.color, light.intensity), LAMBDA effective_color :
    Let(normalized(TupleSub(light.position, pt)), LAMBDA light_vec :
    Let(dot(light_vec, normal_vec), LAMBDA light_dot_normal :
        IF FLe(Zero, light_dot_normal)
        THEN Let(dot(reflected(TupleNeg(light_vec), normal_vec), eye_vec),
                 LAMBDA reflect_dot_eye :
                 [ambient |-> Ambient(m, light),
                  diffuse |-> ColorScale(effective_color,
                                         FMul(m.diffuse, light_dot_normal)),
                  specular |-> IF FLe(Zero, reflect_dot_eye)
                               THEN ColorScale(light.intensity,
                                        FMul(m.specular,
                                             powf(reflect_dot_eye, m.shininess)))
                               ELSE BLACK])
        ELSE [ambient |-> Ambient(m, light), diffuse |-> BLACK, specular |-> BLACK])))

\* &(&ambient + &diffuse) + &specular
SumOfTerms(t) == ColorAdd(ColorAdd(t.ambient, t.diffuse), t.specular)

\* lighting() as src/src/light.rs has it, without a shadow status
lighting_in_light(m, light, pt, eye_vec, normal_vec) ==
    SumOfTerms(PhongTerms(m, light, pt, eye_vec, normal_vec))

\* lighting() as World::shade_hit calls it, with the status of the point
lighting(m, light, pt, eye_vec, normal_vec, status) ==
    IF status = "InShadow" THEN Ambient(m, light)
    ELSE lighting_in_light(m, light, pt, eye_vec, normal_vec)

----------------------------------------------------------------------------
(* lighting(): a run picks the arguments one after the other (light_in.given
   counts them), then calls it. *)

MaxShininess == 2

Tints == {WHITE, Color(One, Q(1, 2), Zero)}

LightPositions ==
    {new_point(Zero, Zero, Num(-10)), new_point(Zero, Zero, Num(10)),
     new_point(Zero, Num(3), Num(-4)), ORIGIN}

EyeVectors ==
    {new_vector(Zero, Zero, Num(-1)), new_vector(Zero, One, Zero),
     new_vector(Zero, Zero, One), new_vector(Zero, Q(-3, 5), Q(-4, 5)),
     new_vector(Zero, Zero, Zero)}

NormalVectors ==
    {new_vector(Zero, Zero, Num(-1)), new_vector(Zero, Zero, One),
     new_vector(Zero, One, Zero)}

InitLight ==
    /\ unit = "light"
    /\ steps = 0
    /\ debug_assertions \in BOOLEAN
    /\ light_in = [given |-> 0, m |-> Pending, light |-> Pending, pt |-> ORIGIN,
                   eye_vec |-> Pending, normal_vec |-> Pending, status |-> Pending]
    /\ light_out = Pending
    /\ HitIdle /\ CellsIdle /\ MulIdle /\ SquareIdle /\ TupleIdle /\ ShapeIdle /\ WorldIdle
    /\ CallIdle /\ CanvasIdle /\ CameraIdle

\* let m = Material { color, shininess, ..Material::default() }
ChooseMaterial(color, shininess) ==
    /\ unit = "light"
    /\ light_in.given = 0
    /\ light_in' = [light_in EXCEPT !.given = 1, !.m =
          Material(color, MaterialDefault.ambient, MaterialDefault.diffuse,
                   MaterialDefault.specular, Num(shininess))]
    /\ UNCHANGED <<unit, callVars, canvasVars, cameraVars, steps, debug_assertions, light_out, hitVars, cellVars, mulVars,
                   invVars, tupleVars, shapeVars, worldVars>>

\* let light = PointLight::new(intensity, at)
ChooseLight(intensity, at) ==
    /\ unit = "light"
    /\ light_in.given = 1
    /\ ~PointLightNewPanics(debug_assertions, at)
    /\ light_in' = [light_in EXCEPT !.given = 2, !.light = PointLightNew(intensity, at)]
    /\ UNCHANGED <<unit, callVars, canvasVars, cameraVars, steps, debug_assertions, light_out, hitVars, cellVars, mulVars,
                   invVars, tupleVars, shapeVars, worldVars>>

\* let eye_vec = ..; let normal_vec = ..
ChooseVectors(eye_vec, normal_vec) ==
    /\ unit = "light"
    /\ light_in.given = 2
    /\ light_in' = [light_in EXCEPT !.given = 3, !.eye_vec = eye_vec,
                                     !.normal_vec = normal_vec]
    /\ UNCHANGED <<unit, callVars, canvasVars, cameraVars, steps, debug_assertions, light_out, hitVars, cellVars, mulVars,
                   invVars, tupleVars, shapeVars, worldVars>>

\* the status World::point_status found for pt
ChooseStatus(status) ==
    /\ unit = "light"
    /\ light_in.given = 3
    /\ light_in' = [light_in EXCEPT !.given = 4, !.status = status]
    /\ UNCHANGED <<unit, callVars, canvasVars, cameraVars, steps, debug_assertions, light_out, hitVars, cellVars, mulVars,
                   invVars, tupleVars, shapeVars, worldVars>>

\* lighting(&m, &light, &pt, &eye_vec, &normal_vec, status)
Lighting ==
    /\ unit = "light"
    /\ light_in.given = 4
    /\ light_out = Pending
    /\ light_out' =
          IF LightingPanics(debug_assertions, light_in.pt, light_in.eye_vec,
                            light_in.normal_vec)
          THEN [done |-> TRUE, color |-> Panic]
          ELSE IF light_in.status = "InShadow"
          THEN [done |-> TRUE,
                color |-> lighting(light_in.m, light_in.light, light_in.pt,
                                   light_in.eye_vec, light_in.normal_vec, light_in.status)]
          ELSE [done |-> TRUE,
                color |-> lighting(light_in.m, light_in.light, light_in.pt,
                                   light_in.eye_vec, light_in.normal_vec, light_in.status),
                terms |-> PhongTerms(light_in.m, light_in.light, light_in.pt,
                                     light_in.eye_vec, light_in.normal_vec)]
    /\ UNCHANGED <<unit, callVars, canvasVars, cameraVars, steps, debug_assertions, light_in, hitVars, cellVars, mulVars,
                   invVars, tupleVars, shapeVars, worldVars>>

NextLight ==
    \/ \E color \in Tints, shininess \in 0..MaxShininess : ChooseMaterial(color, shininess)
    \/ \E intensity \in Tints, p \in LightPositions : ChooseLight(intensity, p)
    \/ \E e \in EyeVectors, n \in NormalVectors : ChooseVectors(e, n)
    \/ \E status \in {"InLight", "InShadow"} : ChooseStatus(status)
    \/ Lighting

SpecLight == InitLight /\ [][NextLight]_vars

\* dot(light_vec, normal) for the arguments of the call
LightDotNormal ==
    dot(normalized(TupleSub(light_in.light.position, light_in.pt)), light_in.normal_vec)

\* dot(reflect, eye) for the arguments of the call
ReflectDotEye ==
    dot(reflected(TupleNeg(normalized(TupleSub(light_in.light.position, light_in.pt))),
                  light_in.normal_vec),
        light_in.eye_vec)

C4_InLightTerms ==
    (unit = "light" /\ light_out # Pending /\ light_in.status = "InLight") =>
        /\ light_out.color =
              ColorAdd(ColorAdd(light_out.terms.ambient, light_out.terms.diffuse),
                       light_out.terms.specular)
        /\ FLt(LightDotNormal, Zero) =>
              light_out.terms.diffuse = BLACK /\ light_out.terms.specular = BLACK
        /\ FLe(ReflectDotEye, Zero) => light_out.terms.specular = BLACK

\* The above holds of every call whose shininess is not 0.
InLightTermsUnlessShininessZero ==
    (unit = "light" /\ light_out # Pending /\ light_in.status = "InLight"
        /\ light_in.m.shininess # Zero) =>
        /\ FLt(LightDotNormal, Zero) =>
              light_out.terms.diffuse = BLACK /\ light_out.terms.specular = BLACK
        /\ FLe(ReflectDotEye, Zero) => light_out.terms.specular = BLACK

----------------------------------------------------------------------------
(* matrix.rs: transposed; shape.rs: normal_at, prepare_computations *)

\* Matrix::transposed (of a square matrix)
transposed(m) ==
    LET n == m.nrows
    IN  [nrows |-> m.ncols, ncols |-> m.nrows,
         cells |-> Vec([k \in 1..(m.nrows * m.ncols) |->
            \* m.set(c, r, self.get(r, c)) writes storage index c * nrows + r
            LET c == (k - 1) \div n
                r == (k - 1) % n
            IN  MatrixGet(m, r, c)], m.nrows * m.ncols)]

\* Object::normal_at for Object::Sphere: the normal in object space, or Panic in a
\* debug build when pt is not a point
ObjectNormalAt(debug, pt) ==
    IF debug /\ ~is_point(pt) THEN Panic ELSE TupleSub(pt, ORIGIN)

\* Shape::normal_at: the normal, or Panic when a debug_assert! or inverted() panics
normal_at(debug, s, world_pt) ==
    IF debug /\ ~is_point(world_pt) THEN Panic
    ELSE Then(inverted(s.transform), LAMBDA it :
         IF MulTuplePanics(it, world_pt) THEN Panic
         ELSE Then(ObjectNormalAt(debug, MatrixMulTuple(it, world_pt)),
                   LAMBDA obj_normal :
                   normalized(TupleSet(MatrixMulTuple(transposed(it), obj_normal),
                                       3, Zero))))

\* prepare_computations taking over_point along the normal as normal_at gave it.
prepare_computations_before_flip(debug, objects, x, r) ==
    IF debug /\ ~is_vector(r.direction) THEN Panic
    ELSE Let(position(r, x.distance), LAMBDA point :
         Then(normal_at(debug, objects[x.shape], point), LAMBDA normal :
         Let(TupleNeg(r.direction), LAMBDA eye_vec :
         Let(FLt(dot(normal, eye_vec), Zero), LAMBDA inside :
             [distance |-> x.distance,
              object |-> x.shape,
              point |-> point,
              over_point |-> TupleAdd(point, TupleScale(normal, EPSILON)),
              eye_vec |-> eye_vec,
              normal_vec |-> IF inside THEN TupleNeg(normal) ELSE normal,
              inside |-> inside]))))

\* Intersection::prepare_computations; objects resolves the handle x.shape.  The
\* Computations, or Panic when a debug_assert! or normal_at panics.
prepare_computations(debug, objects, x, r) ==
    IF debug /\ ~is_vector(r.direction) THEN Panic
    ELSE Let(position(r, x.distance), LAMBDA point :
         Then(normal_at(debug, objects[x.shape], point), LAMBDA normal :
         Let(TupleNeg(r.direction), LAMBDA eye_vec :
         Let(FLt(dot(normal, eye_vec), Zero), LAMBDA inside :
         Let(IF inside THEN TupleNeg(normal) ELSE normal, LAMBDA normal_vec :
             [distance |-> x.distance,
              object |-> x.shape,
              point |-> point,
              over_point |-> TupleAdd(point, TupleScale(normal_vec, EPSILON)),
              eye_vec |-> eye_vec,
              normal_vec |-> normal_vec,
              inside |-> inside])))))

----------------------------------------------------------------------------
(* world.rs *)

\* The gathering leaving out the shapes whose intersections() panics.
RECURSIVE GatheredSkippingFailures(_, _, _, _)
GatheredSkippingFailures(debug, w, r, n) ==
    IF n = 0 THEN <<>>
    ELSE Let(GatheredSkippingFailures(debug, w, r, n - 1), LAMBDA before :
         Let(ShapeIntersections(debug, w.objects[n], n, r), LAMBDA found :
             IF found = Panic THEN before ELSE before \o found))

\* A gathering that keeps the intersections of the last shape only.
GatheredOfLast(debug, w, r, n) ==
    IF n = 0 THEN <<>> ELSE ShapeIntersections(debug, w.objects[n], n, r)

\* self.objects.iter().flat_map(|o| o.intersections(ray)).collect(), over the
\* first n objects: the list, or Panic when intersections() of one of them panics
RECURSIVE Gathered(_, _, _, _)
Gathered(debug, w, r, n) ==
    IF n = 0 THEN <<>>
    ELSE Then(Gathered(debug, w, r, n - 1), LAMBDA before :
         Then(ShapeIntersections(debug, w.objects[n], n, r), LAMBDA found :
             before \o found))

\* The positions of g that no other position precedes in distance order.
MinimalPositions(g) ==
    {k \in 1..Len(g) : \A j \in 1..Len(g) : ~FLt(g[j].distance, g[k].distance)}

\* g without its k-th element
Without(g, k) == SubSeq(g, 1, k - 1) \o SubSeq(g, k + 1, Len(g))

\* The orders sort_unstable_by may leave g in: every arrangement of g in
\* ascending distance; which of two equal distances comes first is not specified.
RECURSIVE SortedOrders(_)
SortedOrders(g) ==
    IF g = <<>> THEN {<<>>}
    ELSE UNION {{<<g[k]>> \o rest : rest \in SortedOrders(Without(g, k))} :
                    k \in MinimalPositions(g)}

\* A sort whose comparison never fails.
SortNeverPanics(g) == FALSE

\* partial_cmp returns None on a NaN and expect() panics; a slice of fewer than two
\* elements is never compared.
SortPanics(g) == Len(g) >= 2 /\ \E k \in 1..Len(g) : IsNaN(g[k].distance)

\* World::intersects: the lists it may return, or Panic
intersects(debug, w, r) ==
    Then(Gathered(debug, w, r, Len(w.objects)), LAMBDA g :
        IF SortPanics(g) THEN Panic
        ELSE [ok |-> TRUE, orders |-> SortedOrders(g)])

\* point_status looking at the first entry of the sorted list, not at hit().
point_status_of_first(debug, w, pt) ==
    IF debug /\ ~is_point(pt) THEN Panic
    ELSE Let(TupleSub(w.light.position, pt), LAMBDA vec :
         Then(RayNew(debug, pt, normalized(vec)), LAMBDA shadow_ray :
         Then(intersects(debug, w, shadow_ray), LAMBDA found :
         Let(CHOOSE order \in found.orders : TRUE, LAMBDA sorted :
             [ok |-> TRUE,
              status |-> IF sorted # <<>> /\ FLt(sorted[1].distance, magnitude(vec))
                         THEN "InShadow"
                         ELSE "InLight"]))))

\* World::point_status: the status, or Panic when a debug_assert!, Ray::new or
\* intersects panics.  Every list intersects may return has the same hit
\* distance, so the status does not depend on the list taken here.
point_status(debug, w, pt) ==
    IF debug /\ ~is_point(pt) THEN Panic
    ELSE Let(TupleSub(w.light.position, pt), LAMBDA vec :
         Then(RayNew(debug, pt, normalized(vec)), LAMBDA shadow_ray :
         Then(intersects(debug, w, shadow_ray), LAMBDA found :
         Let(hit(CHOOSE order \in found.orders : TRUE), LAMBDA i :
             [ok |-> TRUE,
              status |-> IF i # None /\ FLt(i.value.distance, magnitude(vec))
                         THEN "InShadow"
                         ELSE "InLight"]))))

\* shade_hit shading the point of the surface itself.
shade_hit_at_point(debug, w, comps) ==
    Then(point_status(debug, w, comps.point), LAMBDA in_shadow :
        IF LightingPanics(debug, comps.point, comps.eye_vec, comps.normal_vec)
        THEN Panic
        ELSE lighting(w.objects[comps.object].material, w.light, comps.point,
                      comps.eye_vec, comps.normal_vec, in_shadow.status))

\* World::shade_hit: the colour, or Panic
shade_hit(debug, w, comps) ==
    Then(point_status(debug, w, comps.over_point), LAMBDA in_shadow :
        IF LightingPanics(debug, comps.over_point, comps.eye_vec, comps.normal_vec)
        THEN Panic
        ELSE lighting(w.objects[comps.object].material, w.light, comps.over_point,
                      comps.eye_vec, comps.normal_vec, in_shadow.status))

\* The intersection color_at would shade if it asked hit() for it.
SelectedByHit(xs0) == IF hit(xs0) = None THEN xs0[1] ELSE hit(xs0).value

\* The intersection World::color_at shades: xs[0]
Selected(xs0) == xs0[1]

\* World::color_at once intersects has returned the list xs0: the colour, or Panic
color_at(debug, w, r, xs0) ==
    IF xs0 = <<>> THEN BLACK
    ELSE Then(prepare_computations(debug, w.objects, Selected(xs0), r), LAMBDA comps :
             shade_hit(debug, w, comps))

\* What a call of World::color_at may leave: a panic, or the list intersects
\* returned and the colour
ColorAtOutcomes(debug, w, r) ==
    Let(intersects(debug, w, r), LAMBDA found :
        IF found = Panic THEN {[done |-> TRUE, panicked |-> TRUE]}
        ELSE {Let(color_at(debug, w, r, xs0), LAMBDA color :
                  IF color = Panic THEN [done |-> TRUE, panicked |-> TRUE]
                  ELSE [done |-> TRUE, panicked |-> FALSE, xs |-> xs0,
                        color |-> color]) : xs0 \in found.orders})

----------------------------------------------------------------------------
(* World::color_at: a run adds spheres to a world, casts a ray along or beside
   the z axis, and asks for its colour. *)

MaxObjects == 2

\* The outer sphere of test_util::default_world
OuterSphere ==
    with_transform_and_material("Sphere", Identity(4),
        Material(Color(Q(4, 5), One, Q(3, 5)), MaterialDefault.ambient, Q(7, 10),
                 Q(1, 5), MaterialDefault.shininess))

\* The inner sphere of test_util::default_world
InnerSphere ==
    with_transform_and_material("Sphere", scaling(Q(1, 2), Q(1, 2), Q(1, 2)),
                                MaterialDefault)

\* Shape::new(Object::Sphere): where the outer sphere is, with another material
PlainSphere == ShapeNew("Sphere")

Palette == {OuterSphere, InnerSphere, PlainSphere}

\* Rays along the z axis that start in front of the spheres, inside them and past
\* them, a ray that passes beside them, and a ray without a direction.
EyeRays ==
    {from_triplets(<<Zero, Zero, Num(-5)>>, <<Zero, Zero, One>>),
     from_triplets(<<Zero, Zero, Q(3, 4)>>, <<Zero, Zero, Num(-1)>>),
     from_triplets(<<Zero, Zero, Num(5)>>, <<Zero, Zero, One>>),
     from_triplets(<<Zero, Num(3), Num(-5)>>, <<Zero, Zero, One>>),
     from_triplets(<<Zero, Zero, Num(-5)>>, <<Zero, Zero, Zero>>)}

InitWorld ==
    /\ unit = "world"
    /\ steps = 0
    /\ debug_assertions \in BOOLEAN
    /\ world = [light |-> PointLightNew(WHITE, new_point(Zero, Zero, Num(-10))),
                objects |-> <<>>]
    /\ world_ray = Pending
    /\ world_out = Pending
    /\ HitIdle /\ CellsIdle /\ MulIdle /\ SquareIdle /\ TupleIdle /\ ShapeIdle /\ LightIdle
    /\ CallIdle /\ CanvasIdle /\ CameraIdle

\* world.objects.push(s); a scene lists a sphere once
AddObject(s) ==
    /\ unit = "world"
    /\ world_ray = Pending
    /\ Len(world.objects) < MaxObjects
    /\ \A k \in 1..Len(world.objects) : world.objects[k] # s
    /\ world' = [world EXCEPT !.objects = Append(@, s)]
    /\ UNCHANGED <<unit, callVars, canvasVars, cameraVars, steps, debug_assertions, world_ray, world_out, hitVars, cellVars,
                   mulVars, invVars, tupleVars, shapeVars, lightVars>>

\* let ray = Ray::from_triplets(..)
CastEyeRay(r) ==
    /\ unit = "world"
    /\ world_ray = Pending
    /\ world_ray' = r
    /\ UNCHANGED <<unit, callVars, canvasVars, cameraVars, steps, debug_assertions, world, world_out, hitVars, cellVars,
                   mulVars, invVars, tupleVars, shapeVars, lightVars>>

\* world.color_at(&ray)
ColorAt ==
    /\ unit = "world"
    /\ world_ray # Pending
    /\ world_out = Pending
    /\ world_out' \in ColorAtOutcomes(debug_assertions, world, world_ray)
    /\ UNCHANGED <<unit, callVars, canvasVars, cameraVars, steps, debug_assertions, world, world_ray, hitVars, cellVars,
                   mulVars, invVars, tupleVars, shapeVars, lightVars>>

NextWorld ==
    \/ \E s \in Palette : AddObject(s)
    \/ \E r \in EyeRays : CastEyeRay(r)
    \/ ColorAt

SpecWorld == InitWorld /\ [][NextWorld]_vars

\* Every intersection of every shape of the world with the ray, in any order.
AllIntersections ==
    Gathered(debug_assertions, world, world_ray, Len(world.objects))

Count(xs0, x) == Cardinality({i \in 1..Len(xs0) : xs0[i] = x})

\* The entries of xs0
Entries(xs0) == {xs0[i] : i \in 1..Len(xs0)}

\* What World::intersects does with the ray of the run: Panic, or the lists it
\* may return
Intersected == intersects(debug_assertions, world, world_ray)

\* C23: a list World::intersects returns holds every intersection of every shape
\* of the world with the ray as many times as that shape gives it, holds nothing
\* else, each entry referring to the shape that gave it, and its distances never
\* decrease, the negative ones coming first.
C23_IntersectsIsSortedUnion ==
    (unit = "world" /\ world_ray # Pending /\ Intersected # Panic) =>
        \A order \in Intersected.orders :
            /\ \A x \in Entries(order) :
                  /\ x.shape \in 1..Len(world.objects)
                  /\ Count(order, x) =
                        Count(ShapeIntersections(debug_assertions, world.objects[x.shape],
                                                 x.shape, world_ray), x)
            /\ \A k \in 1..Len(world.objects) :
                  Entries(ShapeIntersections(debug_assertions, world.objects[k], k,
                                             world_ray)) \subseteq Entries(order)
            /\ \A i \in 1..Len(order), j \in 1..Len(order) :
                  i < j => FLe(order[i].distance, order[j].distance)

\* color_at went on with a list of four negative distances in which the two
\* intersections of the second shape lie between those of the first.
C23_Witness ==
    /\ unit = "world"
    /\ world_out # Pending
    /\ ~world_out.panicked
    /\ Len(world_out.xs) = 4
    /\ world_out.xs \in Intersected.orders
    /\ world_out.xs[1].shape = 1
    /\ world_out.xs[2].shape = 2
    /\ world_out.xs[3].shape = 2
    /\ world_out.xs[4].shape = 1
    /\ FLt(world_out.xs[4].distance, Zero)
    /\ FLt(world_out.xs[1].distance, world_out.xs[2].distance)

\* C24: two intersections of equal distance are, in every list World::intersects
\* returns, in the order of their shapes in world.objects, and color_at shades
\* the first shape of world.objects among those tied for the smallest distance.
C24_SortIsStable ==
    (unit = "world" /\ world_ray # Pending /\ Intersected # Panic) =>
        /\ \A order \in Intersected.orders :
              \A i \in 1..Len(order), j \in 1..Len(order) :
                  (i < j /\ order[i].distance = order[j].distance) =>
                      order[i].shape <= order[j].shape
        /\ (world_out # Pending /\ ~world_out.panicked /\ world_out.xs # <<>>) =>
              \A k \in 1..Len(world_out.xs) :
                  world_out.xs[k].distance = world_out.xs[1].distance =>
                      world_out.xs[1].shape <= world_out.xs[k].shape

\* Whether the intersections gathered from the shapes hold a NaN distance
GatheredNaN ==
    \E k \in 1..Len(world.objects) :
        Let(ShapeIntersections(debug_assertions, world.objects[k], k, world_ray),
            LAMBDA found : found # Panic /\ \E x \in Entries(found) : IsNaN(x.distance))

\* C25: when an intersection gathered from the shapes has a NaN distance,
\* World::intersects fails; a list it returns holds no NaN distance and is in
\* ascending order.
C25_NaNFailsFast ==
    (unit = "world" /\ world_ray # Pending) =>
        /\ GatheredNaN => Intersected = Panic
        /\ Intersected # Panic =>
              \A order \in Intersected.orders :
                  /\ \A i \in 1..Len(order) : ~IsNaN(order[i].distance)
                  /\ \A i \in 1..Len(order), j \in 1..Len(order) :
                        i < j => ~FLt(order[j].distance, order[i].distance)

\* A ray without a direction was cast at a world of two spheres, whose
\* intersections all have a NaN distance, and color_at failed.
C25_Witness ==
    /\ unit = "world"
    /\ world_out # Pending
    /\ world_out.panicked
    /\ Len(world.objects) = 2
    /\ world_ray.direction = new_vector(Zero, Zero, Zero)
    /\ GatheredNaN
    /\ Intersected = Panic

----------------------------------------------------------------------------
(* tuple.rs: new_zero, cross; transform.rs: view *)

\* Tuple::new_zero
new_zero == TupleNew(Zero, Zero, Zero, Zero)

\* Tuple::cross: the vector, or Panic when an operand is not a vector
cross(a, o) ==
    IF ~(is_vector(a) /\ is_vector(o)) THEN Panic
    ELSE new_vector(FSub(FMul(a[2], o[3]), FMul(a[3], o[2])),
                    FSub(FMul(a[3], o[1]), FMul(a[1], o[3])),
                    FSub(FMul(a[1], o[2]), FMul(a[2], o[1])))

\* transform::view: the matrix, or Panic when a debug assertion or cross fails
view(debug, from, to, up) ==
    IF debug /\ (~is_point(from) \/ ~is_point(to) \/ ~is_vector(up)) THEN Panic
    ELSE Let(normalized(TupleSub(to, from)), LAMBDA fwd :
         Then(cross(fwd, normalized(up)), LAMBDA left :
         Then(cross(left, fwd), LAMBDA true_up :
             MatrixMul([nrows |-> 4, ncols |-> 4,
                        cells |-> <<left[1], left[2], left[3], Zero,
                                    true_up[1], true_up[2], true_up[3], Zero,
                                    FNeg(fwd[1]), FNeg(fwd[2]), FNeg(fwd[3]), Zero,
                                    Zero, Zero, Zero, One>>],
                       translation(FNeg(from[1]), FNeg(from[2]), FNeg(from[3]))))))

----------------------------------------------------------------------------
(* Single calls: a run makes one call of a constructor, of Ray::transformed, of
   normalized() or of an operation that normalizes, and keeps what it returned. *)

\* The w components handed to Tuple::new
CallWs == {Zero, One, Q(1, 2), Num(4)}

\* Tuples handed to Ray::new and PointLight::new
CallTuples == {TupleNew(Zero, y, One, w) : y \in {Zero, One}, w \in CallWs}

\* The matrices handed to Ray::transformed; the bottom row of the last two is
\* not 0, 0, 0, 1.
CallMatrices ==
    {Identity(4), translation(Zero, Zero, One), scaling(Num(2), Num(2), Num(2)),
     MatrixSet(Identity(4), 3, 2, One), MatrixSet(Identity(4), 3, 3, Zero)}

\* The tuples normalized() is called on; the first two have magnitude zero.
NormalizeArgs ==
    {new_zero, new_vector(Zero, Zero, Num(2)), new_vector(Zero, Num(3), Num(4)),
     new_vector(Zero, Num(-4), Num(3)), new_point(Zero, Zero, Zero)}

\* Points on the z axis: where the light, the shaded point and the eye are put
AxisPoints == {new_point(Zero, Zero, Num(z)) : z \in {-10, -5, 0, 5, 8}}

\* Where point_status is asked and the light is put: the points of the axis, and
\* the point where the sphere is entered from (0, 0, -5).
ShadowPoints == AxisPoints \cup {new_point(Zero, Zero, Num(-1))}

InitCall ==
    /\ unit = "call"
    /\ steps = 0
    /\ debug_assertions \in BOOLEAN
    /\ call = Pending
    /\ call_out = Pending
    /\ HitIdle /\ CellsIdle /\ MulIdle /\ SquareIdle /\ TupleIdle /\ ShapeIdle
    /\ LightIdle /\ WorldIdle /\ CanvasIdle /\ CameraIdle

\* Tuple::new(x, y, z, w), Tuple::new_point(x, y, z), Tuple::new_vector(x, y, z)
\* or Tuple::new_zero()
Construct(how, x, y, z, w) ==
    /\ unit = "call"
    /\ call = Pending
    /\ call' = [done |-> TRUE, fn |-> how,
                args |-> IF how = "Tuple::new" THEN <<x, y, z, w>>
                         ELSE IF how = "new_zero" THEN <<>> ELSE <<x, y, z>>]
    /\ call_out' = IF how = "Tuple::new" THEN TupleNew(x, y, z, w)
                   ELSE IF how = "new_point" THEN new_point(x, y, z)
                   ELSE IF how = "new_vector" THEN new_vector(x, y, z)
                   ELSE new_zero
    /\ UNCHANGED <<unit, steps, debug_assertions, hitVars, cellVars, mulVars, invVars,
                   tupleVars, shapeVars, lightVars, worldVars, canvasVars, cameraVars>>

\* Ray::new(origin, direction)
NewRay(origin, direction) ==
    /\ unit = "call"
    /\ call = Pending
    /\ call' = [done |-> TRUE, fn |-> "Ray::new", args |-> <<origin, direction>>]
    /\ call_out' = RayNew(debug_assertions, origin, direction)
    /\ UNCHANGED <<unit, steps, debug_assertions, hitVars, cellVars, mulVars, invVars,
                   tupleVars, shapeVars, lightVars, worldVars, canvasVars, cameraVars>>

\* Ray::from_triplets(o, d).transformed(&m)
TransformRay(o, d, m) ==
    /\ unit = "call"
    /\ call = Pending
    /\ call' = [done |-> TRUE, fn |-> "Ray::transformed",
                args |-> <<from_triplets(o, d), m>>]
    /\ call_out' = transformed(debug_assertions, from_triplets(o, d), m)
    /\ UNCHANGED <<unit, steps, debug_assertions, hitVars, cellVars, mulVars, invVars,
                   tupleVars, shapeVars, lightVars, worldVars, canvasVars, cameraVars>>

\* PointLight::new(intensity, at)
NewLight(intensity, at) ==
    /\ unit = "call"
    /\ call = Pending
    /\ call' = [done |-> TRUE, fn |-> "PointLight::new", args |-> <<intensity, at>>]
    /\ call_out' = IF PointLightNewPanics(debug_assertions, at) THEN Panic
                   ELSE PointLightNew(intensity, at)
    /\ UNCHANGED <<unit, steps, debug_assertions, hitVars, cellVars, mulVars, invVars,
                   tupleVars, shapeVars, lightVars, worldVars, canvasVars, cameraVars>>

\* t.normalized()
Normalize(t) ==
    /\ unit = "call"
    /\ call = Pending
    /\ call' = [done |-> TRUE, fn |-> "normalized", args |-> <<t>>]
    /\ call_out' = normalized(t)
    /\ UNCHANGED <<unit, steps, debug_assertions, hitVars, cellVars, mulVars, invVars,
                   tupleVars, shapeVars, lightVars, worldVars, canvasVars, cameraVars>>

\* lighting(&Material::default(), &PointLight::new(WHITE, at), &pt, &eye_vec,
\* &normal_vec, PointStatus::InLight)
LightPoint(at, pt) ==
    /\ unit = "call"
    /\ call = Pending
    /\ call' = [done |-> TRUE, fn |-> "lighting", args |-> <<at, pt>>]
    /\ call_out' =
          IF LightingPanics(debug_assertions, pt, new_vector(Zero, Zero, Num(-1)),
                            new_vector(Zero, Zero, Num(-1)))
          THEN Panic
          ELSE lighting(MaterialDefault, PointLightNew(WHITE, at), pt,
                        new_vector(Zero, Zero, Num(-1)),
                        new_vector(Zero, Zero, Num(-1)), "InLight")
    /\ UNCHANGED <<unit, steps, debug_assertions, hitVars, cellVars, mulVars, invVars,
                   tupleVars, shapeVars, lightVars, worldVars, canvasVars, cameraVars>>

\* World { light: PointLight::new(WHITE, at), objects }.point_status(&pt)
StatusOfPoint(at, objects, pt) ==
    /\ unit = "call"
    /\ call = Pending
    /\ call' = [done |-> TRUE, fn |-> "point_status", args |-> <<at, objects, pt>>]
    /\ call_out' = point_status(debug_assertions,
                                [light |-> PointLightNew(WHITE, at), objects |-> objects],
                                pt)
    /\ UNCHANGED <<unit, steps, debug_assertions, hitVars, cellVars, mulVars, invVars,
                   tupleVars, shapeVars, lightVars, worldVars, canvasVars, cameraVars>>

\* view(&from, &to, &Tuple::new_vector(0.0, 1.0, 0.0))
View(from, to) ==
    /\ unit = "call"
    /\ call = Pending
    /\ call' = [done |-> TRUE, fn |-> "view", args |-> <<from, to>>]
    /\ call_out' = view(debug_assertions, from, to, new_vector(Zero, One, Zero))
    /\ UNCHANGED <<unit, steps, debug_assertions, hitVars, cellVars, mulVars, invVars,
                   tupleVars, shapeVars, lightVars, worldVars, canvasVars, cameraVars>>

NextCall ==
    \/ \E how \in {"Tuple::new", "new_point", "new_vector", "new_zero"},
          x \in {Zero, One}, y \in {Zero, Num(-2)}, w \in CallWs :
          Construct(how, x, y, Q(1, 2), w)
    \/ \E origin \in CallTuples, direction \in CallTuples : NewRay(origin, direction)
    \/ \E z \in {-5, 0}, m \in CallMatrices :
          TransformRay(<<Zero, Zero, Num(z)>>, <<Zero, Zero, One>>, m)
    \/ \E at \in CallTuples : NewLight(WHITE, at)
    \/ \E t \in NormalizeArgs : Normalize(t)
    \/ \E at \in AxisPoints, pt \in AxisPoints : LightPoint(at, pt)
    \/ \E at \in ShadowPoints, pt \in ShadowPoints,
          objects \in {<<>>, <<ShapeNew("Sphere")>>} :
          StatusOfPoint(at, objects, pt)
    \/ \E from \in AxisPoints, to \in AxisPoints : View(from, to)

SpecCall == InitCall /\ [][NextCall]_vars

\* C11: every value obtained from Tuple::new, new_point, new_vector or new_zero
\* has w exactly 0.0 or exactly 1.0.
C11_ConstructorsGiveW01 ==
    (unit = "call" /\ call # Pending
        /\ call.fn \in {"Tuple::new", "new_point", "new_vector", "new_zero"}) =>
        W(call_out) \in {Zero, One}

\* The above holds of new_point, new_vector and new_zero.
NamedConstructorsGiveW01 ==
    (unit = "call" /\ call # Pending
        /\ call.fn \in {"new_point", "new_vector", "new_zero"}) =>
        W(call_out) \in {Zero, One}

\* C12: Ray::new, Ray::transformed and PointLight::new return no Ray whose origin
\* is not a point or whose direction is not a vector, and no PointLight whose
\* position is not a point: on such input they fail, in every build.
C12_NoInvalidRayOrLight ==
    (unit = "call" /\ call # Pending /\ call_out # Panic) =>
        /\ call.fn \in {"Ray::new", "Ray::transformed"} =>
              W(call_out.origin) = One /\ W(call_out.direction) = Zero
        /\ call.fn = "PointLight::new" => W(call_out.position) = One

\* In a debug build the values returned are those whose w, cast to i32, is 1 for
\* a point and 0 for a vector.
DebugBuildChecksTruncatedW ==
    (unit = "call" /\ call # Pending /\ call_out # Panic /\ debug_assertions) =>
        /\ call.fn \in {"Ray::new", "Ray::transformed"} =>
              is_point(call_out.origin) /\ is_vector(call_out.direction)
        /\ call.fn = "PointLight::new" => is_point(call_out.position)

\* C13: normalized() of a tuple of magnitude zero fails and returns no value, and
\* so do lighting and point_status when the point is the light's position and
\* view when from = to.
C13_NormalizeZeroFails ==
    (unit = "call" /\ call # Pending) =>
        /\ (call.fn = "normalized" /\ magnitude(call.args[1]) = Zero) => call_out = Panic
        /\ (call.fn \in {"lighting", "view"} /\ call.args[1] = call.args[2]) =>
              call_out = Panic
        /\ (call.fn = "point_status" /\ call.args[1] = call.args[3]) => call_out = Panic

\* normalized() never fails: for a magnitude of zero every component it returns
\* is NaN.  lighting for the light's own position returns the ambient term, view
\* with from = to returns a matrix with NaN cells, and point_status for the
\* light's position fails only when the world has a shape, in the sort.
NormalizeZeroGivesNaN ==
    (unit = "call" /\ call # Pending) =>
        /\ call.fn = "normalized" =>
              /\ call_out # Panic
              /\ magnitude(call.args[1]) = Zero => \A i \in 1..4 : IsNaN(call_out[i])
        /\ (call.fn = "lighting" /\ call.args[1] = call.args[2]) =>
              call_out = Ambient(MaterialDefault, PointLightNew(WHITE, call.args[1]))
        /\ (call.fn = "view" /\ call.args[1] = call.args[2]) =>
              call_out # Panic /\ \E k \in 1..16 : IsNaN(call_out.cells[k])
        /\ (call.fn = "point_status" /\ call.args[1] = call.args[3]) =>
              IF call.args[2] = <<>> THEN call_out = [ok |-> TRUE, status |-> "InLight"]
              ELSE call_out = Panic

----------------------------------------------------------------------------
(* canvas.rs: Canvas *)

\* Canvas::new
CanvasNew(width, height) ==
    [width |-> width, height |-> height,
     pixels |-> Vec([k \in 1..(width * height) |-> BLACK], width * height)]

\* The bound of the slice index alone.
CanvasPanicsOnIndex(c, x, y) == ~(y * c.width + x < Len(c.pixels))

\* The two asserts of Canvas::get and Canvas::set and the bound of the slice index
CanvasPanics(c, x, y) ==
    \/ ~(x < c.width)
    \/ ~(y < c.height)
    \/ ~(y * c.width + x < Len(c.pixels))

\* Canvas::get, where it does not panic
CanvasGet(c, x, y) == c.pixels[y * c.width + x + 1]

\* Canvas::set, where it does not panic
CanvasSet(c, x, y, color) == [c EXCEPT !.pixels[y * c.width + x + 1] = color]

\* Canvas::fill
CanvasFill(c, color) ==
    [c EXCEPT !.pixels = Vec([k \in 1..Len(c.pixels) |-> color], Len(c.pixels))]

----------------------------------------------------------------------------
(* Canvas pixels: a run creates a canvas, sets pixels in range and one step
   out of range, and reads one.  canvas_op.latest keeps, for every position in range, the colour
   of the most recent set that named it. *)

MaxCanvas == 2

MaxSets == 2

RED == Color(One, Zero, Zero)

InitCanvas ==
    /\ unit = "canvas"
    /\ steps = 0
    /\ debug_assertions = FALSE
    /\ \E width \in 0..MaxCanvas, height \in 0..MaxCanvas :
          /\ canvas = CanvasNew(width, height)
          /\ canvas_op = [op |-> "new",
                          latest |-> [pos \in (0..(width - 1)) \X (0..(height - 1)) |-> BLACK]]
    /\ ppm_out = Idle
    /\ HitIdle /\ CellsIdle /\ MulIdle /\ SquareIdle /\ TupleIdle /\ ShapeIdle
    /\ LightIdle /\ WorldIdle /\ CallIdle /\ CameraIdle

\* canvas.set(x, y, &color)
PixelSet(x, y, color) ==
    /\ unit = "canvas"
    /\ canvas_op.op # "get"
    /\ x <= canvas.width
    /\ y <= canvas.height
    /\ steps < MaxSets
    /\ steps' = steps + 1
    /\ IF CanvasPanics(canvas, x, y)
       THEN /\ canvas' = canvas
            /\ canvas_op' = [op |-> "set", x |-> x, y |-> y, panicked |-> TRUE,
                             before |-> canvas, latest |-> canvas_op.latest]
       ELSE /\ canvas' = CanvasSet(canvas, x, y, color)
            /\ canvas_op' = [op |-> "set", x |-> x, y |-> y, panicked |-> FALSE,
                             before |-> canvas,
                             latest |-> IF <<x, y>> \in DOMAIN canvas_op.latest
                                        THEN [canvas_op.latest EXCEPT ![<<x, y>>] = color]
                                        ELSE canvas_op.latest]
    /\ UNCHANGED <<unit, debug_assertions, ppm_out, hitVars, cellVars, mulVars, invVars,
                   tupleVars, shapeVars, lightVars, worldVars, callVars, cameraVars>>

\* canvas.get(x, y)
PixelGet(x, y) ==
    /\ unit = "canvas"
    /\ canvas_op.op # "get"
    /\ x <= canvas.width
    /\ y <= canvas.height
    /\ canvas_op' = [op |-> "get", x |-> x, y |-> y,
                     panicked |-> CanvasPanics(canvas, x, y),
                     out |-> IF CanvasPanics(canvas, x, y) THEN Panic
                             ELSE CanvasGet(canvas, x, y),
                     before |-> canvas, latest |-> canvas_op.latest]
    /\ UNCHANGED <<unit, steps, debug_assertions, canvas, ppm_out, hitVars, cellVars,
                   mulVars, invVars, tupleVars, shapeVars, lightVars, worldVars,
                   callVars, cameraVars>>

NextCanvas ==
    \/ \E x \in 0..MaxCanvas, y \in 0..MaxCanvas, color \in {WHITE, RED} :
          PixelSet(x, y, color)
    \/ \E x \in 0..MaxCanvas, y \in 0..MaxCanvas : PixelGet(x, y)

SpecCanvas == InitCanvas /\ [][NextCanvas]_vars

\* C14: a new canvas is black everywhere; get(x, y) returns the colour of the most
\* recent set(x, y, _), or black if there was none; set(x, y, c) changes no other
\* pixel; get and set with x >= width or y >= height fail and change no pixel,
\* even when y * width + x falls inside the pixel storage.
C14_CanvasFrame ==
    unit = "canvas" =>
        /\ \A pos \in DOMAIN canvas_op.latest :
              /\ ~CanvasPanics(canvas, pos[1], pos[2])
              /\ CanvasGet(canvas, pos[1], pos[2]) = canvas_op.latest[pos]
        /\ canvas_op.op = "get" =>
              IF canvas_op.x >= canvas.width \/ canvas_op.y >= canvas.height
              THEN canvas_op.out = Panic
              ELSE canvas_op.out = canvas_op.latest[<<canvas_op.x, canvas_op.y>>]
        /\ canvas_op.op = "set" =>
              IF canvas_op.x >= canvas.width \/ canvas_op.y >= canvas.height
              THEN canvas_op.panicked /\ canvas = canvas_op.before
              ELSE /\ ~canvas_op.panicked
                   /\ \A pos \in DOMAIN canvas_op.latest :
                         pos # <<canvas_op.x, canvas_op.y>> =>
                            CanvasGet(canvas, pos[1], pos[2])
                               = CanvasGet(canvas_op.before, pos[1], pos[2])

\* After two sets, one of which made a pixel red while another stayed black, a
\* get out of range whose index y * width + x is inside the storage failed.
C14_Witness ==
    /\ unit = "canvas"
    /\ canvas_op.op = "get"
    /\ steps = 2
    /\ canvas_op.x >= canvas.width
    /\ canvas_op.y * canvas.width + canvas_op.x < Len(canvas.pixels)
    /\ canvas_op.panicked
    /\ \E pos \in DOMAIN canvas_op.latest : canvas_op.latest[pos] = RED
    /\ \E pos \in DOMAIN canvas_op.latest : canvas_op.latest[pos] = BLACK

----------------------------------------------------------------------------
(* canvas.rs: to_ppm.  What is written is a sequence of characters. *)

PPM_MAX_COLOR_VALUE == 255

PPM_MAX_CHAR_PER_LINE == 70

\* f64::round: to the nearest integer, halves away from zero
Round(a) ==
    IF ~IsFinite(a) THEN a
    ELSE Num(Sgn(a[1]) * ((2 * Abs(a[1]) + a[2]) \div (2 * a[2])))

\* f64 `as i32` after a plain multiplication, with no rounding.
ScaleTruncated(n) == AsI32(FMul(n, Num(PPM_MAX_COLOR_VALUE)))

\* (n * PPM_MAX_COLOR_VALUE as f64).round() as i32
Scale(n) == AsI32(Round(FMul(n, Num(PPM_MAX_COLOR_VALUE))))

scale_and_clamp_color(n) ==
    Let(Scale(n), LAMBDA scaled :
        IF scaled < 0 THEN 0
        ELSE IF scaled > PPM_MAX_COLOR_VALUE THEN PPM_MAX_COLOR_VALUE
        ELSE scaled)

\* format!("{}", n) of an integer: its decimal digits, after a minus sign if n < 0
RECURSIVE Decimal(_)
Decimal(n) ==
    IF n < 0 THEN <<"-">> \o Decimal(-n)
    ELSE IF n < 10 THEN <<<<"0", "1", "2", "3", "4", "5", "6", "7", "8", "9">>[n + 1]>>
    ELSE Decimal(n \div 10) \o Decimal(n % 10)

\* Canvas::write_ppm_header
write_ppm_header(c) ==
    <<"P", "3", "\n">> \o Decimal(c.width) \o <<" ">> \o Decimal(c.height) \o <<"\n">>
        \o Decimal(PPM_MAX_COLOR_VALUE) \o <<"\n">>

\* The channel loop breaking the line only when the value itself does not fit.
WriteChannelTight(st, s) ==
    IF st.nb_chars + Len(s) > PPM_MAX_CHAR_PER_LINE
    THEN [st EXCEPT !.nb_chars = Len(s), !.out = @ \o <<"\n">> \o s]
    ELSE IF st.nb_chars > 0
    THEN [st EXCEPT !.nb_chars = @ + 1 + Len(s), !.out = @ \o <<" ">> \o s]
    ELSE [st EXCEPT !.nb_chars = @ + Len(s), !.out = @ \o s]

\* One pass of the channel loop of write_ppm_data, s being the formatted value;
\* st holds nb_chars, nb_colors and what has been written
WriteChannel(st, s) ==
    IF st.nb_chars + Len(s) >= PPM_MAX_CHAR_PER_LINE
    THEN [st EXCEPT !.nb_chars = Len(s), !.out = @ \o <<"\n">> \o s]
    ELSE IF st.nb_chars > 0
    THEN [st EXCEPT !.nb_chars = @ + 1 + Len(s), !.out = @ \o <<" ">> \o s]
    ELSE [st EXCEPT !.nb_chars = @ + Len(s), !.out = @ \o s]

\* The three passes of the channel loop for one pixel
WriteChannels(st, color) ==
    Let(WriteChannel(st, Decimal(scale_and_clamp_color(color[1]))), LAMBDA s1 :
    Let(WriteChannel(s1, Decimal(scale_and_clamp_color(color[2]))), LAMBDA s2 :
        WriteChannel(s2, Decimal(scale_and_clamp_color(color[3])))))

\* The pixel loop never going to the next line at the end of a row.
WriteColorNoRows(width, st, color) ==
    Let([st EXCEPT !.nb_colors = @ + 1], LAMBDA s0 : WriteChannels(s0, color))

\* One pass of the pixel loop of write_ppm_data
WriteColor(width, st, color) ==
    Let(IF st.nb_colors = width /\ st.nb_chars > 0
        THEN [nb_colors |-> 1, nb_chars |-> 0, out |-> st.out \o <<"\n">>]
        ELSE [st EXCEPT !.nb_colors = @ + 1],
        LAMBDA s0 : WriteChannels(s0, color))

\* The pixel loop of write_ppm_data from the k-th pixel on, st being the state
\* left by the pixels before it (read before the pass that follows)
RECURSIVE WritePixels(_, _, _)
WritePixels(c, k, st) ==
    IF st.nb_colors >= 0 /\ k <= Len(c.pixels)
    THEN WritePixels(c, k + 1, WriteColor(c.width, st, c.pixels[k]))
    ELSE st

\* Canvas::write_ppm_data
write_ppm_data(c) ==
    Let(WritePixels(c, 1, [nb_colors |-> 0, nb_chars |-> 0, out |-> <<>>]),
        LAMBDA st : IF st.nb_chars > 0 THEN st.out \o <<"\n">> ELSE st.out)

\* Canvas::to_ppm, for a writer that does not fail
to_ppm(c) == write_ppm_header(c) \o write_ppm_data(c)

----------------------------------------------------------------------------
(* PPM export: a run creates a canvas, may fill it, may set one pixel, and
   exports it. *)

MaxPpmWidth == 7

MaxPpmHeight == 2

\* The colours painted: their channels are written as 255 255 255, 255 255 26,
\* 128 0 255 and 3 100 0.
PpmColors ==
    {WHITE, Color(One, One, Q(1, 10)), Color(Q(1, 2), Q(-1, 2), Num(2)),
     Color(Q(1, 100), Q(393, 1000), Q(-1, 1000))}

InitPpm ==
    /\ unit = "ppm"
    /\ steps = 0
    /\ debug_assertions = FALSE
    /\ \E width \in 0..MaxPpmWidth, height \in 0..MaxPpmHeight :
          canvas = CanvasNew(width, height)
    /\ canvas_op = [op |-> "new"]
    /\ ppm_out = Pending
    /\ HitIdle /\ CellsIdle /\ MulIdle /\ SquareIdle /\ TupleIdle /\ ShapeIdle
    /\ LightIdle /\ WorldIdle /\ CallIdle /\ CameraIdle

\* canvas.fill(&color), on a new canvas
Fill(color) ==
    /\ unit = "ppm"
    /\ ppm_out = Pending
    /\ canvas_op.op = "new"
    /\ canvas' = CanvasFill(canvas, color)
    /\ canvas_op' = [op |-> "fill"]
    /\ UNCHANGED <<unit, steps, debug_assertions, ppm_out, hitVars, cellVars, mulVars,
                   invVars, tupleVars, shapeVars, lightVars, worldVars, callVars,
                   cameraVars>>

\* canvas.set(x, y, &color), once, for x and y in range
Paint(x, y, color) ==
    /\ unit = "ppm"
    /\ ppm_out = Pending
    /\ canvas_op.op # "set"
    /\ ~CanvasPanics(canvas, x, y)
    /\ canvas' = CanvasSet(canvas, x, y, color)
    /\ canvas_op' = [op |-> "set"]
    /\ UNCHANGED <<unit, steps, debug_assertions, ppm_out, hitVars, cellVars, mulVars,
                   invVars, tupleVars, shapeVars, lightVars, worldVars, callVars,
                   cameraVars>>

\* canvas.to_ppm(writer)
Export ==
    /\ unit = "ppm"
    /\ ppm_out = Pending
    /\ ppm_out' = [done |-> TRUE, out |-> to_ppm(canvas)]
    /\ UNCHANGED <<unit, steps, debug_assertions, canvas, canvas_op, hitVars, cellVars,
                   mulVars, invVars, tupleVars, shapeVars, lightVars, worldVars,
                   callVars, cameraVars>>

NextPpm ==
    \/ \E color \in PpmColors : Fill(color)
    \/ \E x \in 0..(MaxPpmWidth - 1), y \in 0..(MaxPpmHeight - 1), color \in PpmColors :
          Paint(x, y, color)
    \/ Export

SpecPpm == InitPpm /\ [][NextPpm]_vars

----------------------------------------------------------------------------
(* Reading what was written: the positions of the spaces and newlines, and
   the text between two of them. *)

Separators(s) == {i \in 1..Len(s) : s[i] = " " \/ s[i] = "\n"}

\* The last position of ps before i, or 0
Before(ps, i) ==
    IF \E j \in ps : j < i
    THEN CHOOSE j \in ps : j < i /\ \A k \in ps : k < i => k <= j
    ELSE 0

\* The first position of ps after i
After(ps, i) == CHOOSE j \in ps : j > i /\ \A k \in ps : k > i => j <= k

\* The text ended by the separator at position i
Token(s, seps, i) == SubSeq(s, Before(seps, i) + 1, i - 1)

\* How many separators there are up to position i
Rank(seps, i) == Cardinality({j \in seps : j <= i})

\* The number a text of digits denotes, -1 for any other text
RECURSIVE Number(_)
Number(t) ==
    IF Len(t) = 0 THEN -1
    ELSE Let(CHOOSE d \in -1..9 :
                 \/ d >= 0 /\ t[Len(t)] = <<"0", "1", "2", "3", "4", "5", "6", "7", "8", "9">>[d + 1]
                 \/ d = -1 /\ t[Len(t)] \notin {"0", "1", "2", "3", "4", "5", "6", "7", "8", "9"},
             LAMBDA d :
                 IF d = -1 THEN -1
                 ELSE IF Len(t) = 1 THEN d
                 ELSE IF t[1] = "0" \/ Number(SubSeq(t, 1, Len(t) - 1)) = -1 THEN -1
                 ELSE 10 * Number(SubSeq(t, 1, Len(t) - 1)) + d)

\* The length of the line ended by the newline at position i
LineLength(s, i) == i - Before({j \in 1..Len(s) : s[j] = "\n"}, i) - 1

\* The header takes the first four separators of the output
HeaderSeparators == 4

\* C15: no line of the pixel data is longer than 70 characters, and the data
\* goes to a new line before a value only when a space and that value would
\* have made the line longer than 70 characters or when the value is the first
\* of a canvas row.
C15_LinesWrapped ==
    (unit = "ppm" /\ ppm_out # Pending) =>
        Let(Separators(ppm_out.out), LAMBDA seps :
            \A i \in seps :
                (ppm_out.out[i] = "\n" /\ Rank(seps, i) > HeaderSeparators) =>
                    /\ LineLength(ppm_out.out, i) <= PPM_MAX_CHAR_PER_LINE
                    /\ i < Len(ppm_out.out) =>
                          \/ (Rank(seps, i) - HeaderSeparators) % (3 * canvas.width) = 0
                          \/ LineLength(ppm_out.out, i) + 1 + (After(seps, i) - i - 1)
                                > PPM_MAX_CHAR_PER_LINE)

\* A canvas row was written on two lines, the first of exactly 70 characters.
C15_Witness ==
    /\ unit = "ppm"
    /\ ppm_out # Pending
    /\ \E i \in Separators(ppm_out.out) :
          /\ ppm_out.out[i] = "\n"
          /\ i < Len(ppm_out.out)
          /\ Rank(Separators(ppm_out.out), i) > HeaderSeparators
          /\ (Rank(Separators(ppm_out.out), i) - HeaderSeparators) % (3 * canvas.width) # 0
          /\ LineLength(ppm_out.out, i) = PPM_MAX_CHAR_PER_LINE

\* The channel that is the v-th of the pixel data: pixels row by row, and red,
\* green, blue for each
ChannelAt(c, v) ==
    CanvasGet(c, ((v - 1) \div 3) % c.width, ((v - 1) \div 3) \div c.width)
        [((v - 1) % 3) + 1]

ChannelWritten(c, v) == scale_and_clamp_color(ChannelAt(c, v))

\* C16: the output is the header P3, width and height, 255, then the
\* 3 * width * height channel values row by row with red, green, blue for each
\* pixel; values on a line are one space apart, no line is empty or starts or
\* ends with a space, the first value of every canvas row starts a line, and
\* the output ends with a newline.
C16_PpmLayout ==
    (unit = "ppm" /\ ppm_out # Pending) =>
        Let(Separators(ppm_out.out), LAMBDA seps :
            /\ Cardinality(seps) = HeaderSeparators + 3 * canvas.width * canvas.height
            /\ ppm_out.out[Len(ppm_out.out)] = "\n"
            /\ \A i \in seps :
                  Let(Rank(seps, i), LAMBDA r :
                  Let(Token(ppm_out.out, seps, i), LAMBDA t :
                      /\ t # <<>>
                      /\ r = 1 => t = <<"P", "3">> /\ ppm_out.out[i] = "\n"
                      /\ r = 2 => Number(t) = canvas.width /\ ppm_out.out[i] = " "
                      /\ r = 3 => Number(t) = canvas.height /\ ppm_out.out[i] = "\n"
                      /\ r = 4 => Number(t) = 255 /\ ppm_out.out[i] = "\n"
                      /\ r > HeaderSeparators =>
                            /\ Number(t) = ChannelWritten(canvas, r - HeaderSeparators)
                            /\ (r - HeaderSeparators - 1) % (3 * canvas.width) = 0 =>
                                  ppm_out.out[Before(seps, i)] = "\n")))

\* A canvas of two rows of two pixels, black but for the last pixel, was
\* written as a header of three lines and one line for each row.
C16_Witness ==
    /\ unit = "ppm"
    /\ ppm_out # Pending
    /\ canvas.width = 2
    /\ canvas.height = 2
    /\ ppm_out.out = <<
        "P", "3", "\n", "2", " ", "2", "\n", "2", "5", "5", "\n", "0", " ", "0",
        " ", "0", " ", "0", " ", "0", " ", "0", "\n", "0", " ", "0", " ", "0", " ",
        "3", " ", "1", "0", "0", " ", "0", "\n">>

\* e is the integer nearest to 255 times a finite n, a half counting upwards,
\* or the end of the range 0..255 beyond which that integer falls
Nearest(e, n) ==
    \/ e = 0 /\ 2 * 255 * n[1] < n[2]
    \/ e = 255 /\ 2 * 255 * n[1] >= (2 * 255 - 1) * n[2]
    \/ (2 * e - 1) * n[2] <= 2 * 255 * n[1] /\ 2 * 255 * n[1] < (2 * e + 1) * n[2]

\* C17: every channel value written is an integer of 0..255, the rounding of
\* 255 times the channel brought into that range: 0 for a channel below 0, 255
\* for a channel above 1, 128 for the channel 0.5.
C17_ChannelValues ==
    (unit = "ppm" /\ ppm_out # Pending) =>
        Let(Separators(ppm_out.out), LAMBDA seps :
            \A i \in seps :
                Rank(seps, i) > HeaderSeparators =>
                    Let(Number(Token(ppm_out.out, seps, i)), LAMBDA written :
                    Let(ChannelAt(canvas, Rank(seps, i) - HeaderSeparators), LAMBDA n :
                        /\ written \in 0..255
                        /\ Nearest(written, n)
                        /\ FLt(n, Zero) => written = 0
                        /\ FLt(One, n) => written = 255
                        /\ n = Q(1, 2) => written = 128)))

\* A canvas of one pixel with the channels 0.5, -0.5 and 2 was written as
\* 128 0 255.
C17_Witness ==
    /\ unit = "ppm"
    /\ ppm_out # Pending
    /\ canvas.pixels = <<Color(Q(1, 2), Q(-1, 2), Num(2))>>
    /\ ppm_out.out = <<"P", "3", "\n", "1", " ", "1", "\n", "2", "5", "5", "\n",
                       "1", "2", "8", " ", "0", " ", "2", "5", "5", "\n">>

----------------------------------------------------------------------------
(* camera.rs.  The field of view enters the camera only through
   (field_of_view / 2.0).tan(): a camera is built here from that tangent,
   half_view, which it keeps in the place of field_of_view. *)

\* Camera::with_transform building a vertical canvas as it builds a horizontal one.
with_transform_horizontal(hsize, vsize, half_view, transform) ==
    Let(FDiv(Num(hsize), Num(vsize)), LAMBDA aspect :
        [hsize |-> hsize,
         vsize |-> vsize,
         half_view |-> half_view,
         transform |-> transform,
         half_width |-> half_view,
         half_height |-> FDiv(half_view, aspect),
         pixel_size |-> FDiv(FMul(half_view, Num(2)), Num(hsize))])

\* Camera::with_transform
with_transform(hsize, vsize, half_view, transform) ==
    Let(FDiv(Num(hsize), Num(vsize)), LAMBDA aspect :
    Let(IF FLe(One, aspect) THEN half_view ELSE FMul(half_view, aspect),
        LAMBDA half_width :
        [hsize |-> hsize,
         vsize |-> vsize,
         half_view |-> half_view,
         transform |-> transform,
         half_width |-> half_width,
         half_height |-> IF FLe(One, aspect) THEN FDiv(half_view, aspect)
                         ELSE half_view,
         pixel_size |-> FDiv(FMul(half_width, Num(2)), Num(hsize))]))

\* The point of the canvas, at z = -1, that the ray of pixel (x, y) goes through,
\* before the view transformation
PixelTarget(cam, x, y) ==
    new_point(FSub(cam.half_width, FMul(FAdd(Num(x), Q(1, 2)), cam.pixel_size)),
              FSub(cam.half_height, FMul(FAdd(Num(y), Q(1, 2)), cam.pixel_size)),
              Num(-1))

\* Camera::ray_for_pixel: the ray, or Panic when inverted() or Ray::new panics
ray_for_pixel(debug, cam, x, y) ==
    Then(inverted(cam.transform), LAMBDA t :
    Let(MatrixMulTuple(t, PixelTarget(cam, x, y)), LAMBDA pixel :
    Let(MatrixMulTuple(t, ORIGIN), LAMBDA origin :
        RayNew(debug, origin, normalized(TupleSub(pixel, origin))))))

\* The loops of render going through the columns first.
LoopPixelByColumns(cam, n) == <<(n - 1) \div cam.vsize, (n - 1) % cam.vsize>>

\* The x and y of the n-th pass of for y in 0..vsize { for x in 0..hsize { .. } }
LoopPixel(cam, n) == <<(n - 1) % cam.hsize, (n - 1) \div cam.hsize>>

\* One pass of the loops of render on pixel (x, y), from the canvas and the list
\* of the pixels set so far: what it may leave, Panic when a call panics
RenderPixel(debug, cam, w, st, x, y) ==
    IF st = Panic THEN {Panic}
    ELSE Let(ray_for_pixel(debug, cam, x, y), LAMBDA r :
         IF r = Panic THEN {Panic}
         ELSE {IF found.panicked \/ CanvasPanics(st.canvas, x, y) THEN Panic
               ELSE [canvas |-> CanvasSet(st.canvas, x, y, found.color),
                     writes |-> Append(st.writes, <<x, y>>)] :
                   found \in ColorAtOutcomes(debug, w, r)})

\* What the first n passes of the loops of render may leave
RECURSIVE Rendered(_, _, _, _)
Rendered(debug, cam, w, n) ==
    IF n = 0 THEN {[canvas |-> CanvasNew(cam.hsize, cam.vsize), writes |-> <<>>]}
    ELSE UNION {RenderPixel(debug, cam, w, st, LoopPixel(cam, n)[1], LoopPixel(cam, n)[2]) :
                    st \in Rendered(debug, cam, w, n - 1)}

\* Camera::render: what it may leave
render(debug, cam, w) == Rendered(debug, cam, w, cam.hsize * cam.vsize)

----------------------------------------------------------------------------
(* Rendering: a run builds a camera, puts spheres in a world and renders it.
   The cameras that go on to a scene and a render are those whose rays all
   have a direction whose magnitude is a value of this model. *)

MaxPixels == 3

MaxPlaced == 2

\* Values of (field_of_view / 2.0).tan()
HalfViews == {Q(3, 2), Num(4), Q(9, 8)}

\* A sphere flattened onto the plane z = 0: its transform has no inverse
FlatSphere ==
    with_transform_and_material("Sphere", scaling(One, One, Zero), MaterialDefault)

\* Two spheres in the same place with different materials, and the flat one
Scenery == {OuterSphere, PlainSphere, FlatSphere}

\* The eye on the z axis, five units before or behind the origin, looking at
\* the origin; and a view transformation without an inverse
ViewTransforms ==
    {translation(Zero, Zero, Num(-5)),
     view(FALSE, new_point(Zero, Zero, Num(-5)), ORIGIN, new_vector(Zero, One, Zero)),
     scaling(One, Zero, One)}

ExactRays(cam) ==
    \A x \in 0..(cam.hsize - 1), y \in 0..(cam.vsize - 1) :
        Let(TupleSub(PixelTarget(cam, x, y), ORIGIN), LAMBDA v : ExactSqrt(dot(v, v)))

InitCamera ==
    /\ unit = "camera"
    /\ steps = 0
    /\ debug_assertions \in BOOLEAN
    /\ \E hsize \in 0..MaxPixels, vsize \in 0..MaxPixels, half_view \in HalfViews,
          transform \in ViewTransforms :
          camera = with_transform(hsize, vsize, half_view, transform)
    /\ world = [light |-> PointLightNew(WHITE, new_point(Zero, Zero, Num(-10))),
                objects |-> <<>>]
    /\ world_ray = Idle
    /\ world_out = Idle
    /\ render_out = Pending
    /\ replay = Idle
    /\ HitIdle /\ CellsIdle /\ MulIdle /\ SquareIdle /\ TupleIdle /\ ShapeIdle /\ LightIdle
    /\ CallIdle /\ CanvasIdle

\* world.objects.push(s), before the rendering; a scene lists a sphere once
Place(s) ==
    /\ unit = "camera"
    /\ render_out = Pending
    /\ ExactRays(camera)
    /\ Len(world.objects) < MaxPlaced
    /\ \A k \in 1..Len(world.objects) : world.objects[k] # s
    /\ world' = [world EXCEPT !.objects = Append(@, s)]
    /\ UNCHANGED <<unit, steps, debug_assertions, world_ray, world_out, cameraVars, hitVars, cellVars, mulVars, invVars,
                   tupleVars, shapeVars, lightVars, callVars, canvasVars>>

\* camera.render(&world)
Render ==
    /\ unit = "camera"
    /\ render_out = Pending
    /\ ExactRays(camera)
    /\ \E st \in render(debug_assertions, camera, world) :
          render_out' = IF st = Panic THEN [done |-> TRUE, panicked |-> TRUE]
                        ELSE [done |-> TRUE, panicked |-> FALSE, canvas |-> st.canvas,
                              writes |-> st.writes]
    /\ UNCHANGED <<unit, steps, debug_assertions, worldVars, camera, replay, hitVars, cellVars, mulVars, invVars,
                   tupleVars, shapeVars, lightVars, callVars, canvasVars>>

NextCamera ==
    \/ \E s \in Scenery : Place(s)
    \/ Render

SpecCamera == InitCamera /\ [][NextCamera]_vars

\* No view transformation and no shape of the run lacks an inverse
AllInvertible ==
    /\ invertible(camera.transform)
    /\ \A k \in 1..Len(world.objects) : invertible(world.objects[k].transform)

\* C18: render ends and, when no transformation lacks an inverse, returns a
\* canvas; the canvas returned has hsize x vsize pixels, each pixel was set
\* exactly once, row after row and from left to right in a row, and pixel
\* (x, y) holds a colour color_at returns for ray_for_pixel(x, y).
C18_RenderSetsEveryPixel ==
    (unit = "camera" /\ render_out # Pending) =>
        /\ AllInvertible => ~render_out.panicked
        /\ ~render_out.panicked =>
              /\ render_out.canvas.width = camera.hsize
              /\ render_out.canvas.height = camera.vsize
              /\ Len(render_out.canvas.pixels) = camera.hsize * camera.vsize
              /\ render_out.writes =
                    [n \in 1..(camera.hsize * camera.vsize) |->
                        <<(n - 1) % camera.hsize, (n - 1) \div camera.hsize>>]
              /\ \A x \in 0..(camera.hsize - 1), y \in 0..(camera.vsize - 1) :
                    \E found \in ColorAtOutcomes(debug_assertions, world,
                                     ray_for_pixel(debug_assertions, camera, x, y)) :
                        /\ ~found.panicked
                        /\ CanvasGet(render_out.canvas, x, y) = found.color

\* A render of three pixels in a row returned a canvas whose middle pixel took
\* the colour of a sphere and whose other pixels are black.
C18_Witness ==
    /\ unit = "camera"
    /\ render_out # Pending
    /\ ~render_out.panicked
    /\ camera.hsize = 3
    /\ camera.vsize = 1
    /\ render_out.writes = <<<<0, 0>>, <<1, 0>>, <<2, 0>>>>
    /\ CanvasGet(render_out.canvas, 0, 0) = BLACK
    /\ CanvasGet(render_out.canvas, 1, 0) # BLACK
    /\ CanvasGet(render_out.canvas, 2, 0) = BLACK

\* C19: for hsize > 0 and vsize > 0 the larger side of the canvas is 2 *
\* half_view wide, the other side smaller in the ratio of the sizes, and
\* pixel_size = 2 * half_width / hsize = 2 * half_height / vsize.
C19_SquarePixels ==
    (unit = "camera" /\ camera.hsize > 0 /\ camera.vsize > 0) =>
        /\ camera.hsize >= camera.vsize =>
              /\ camera.half_width = camera.half_view
              /\ FMul(camera.half_height, Num(camera.hsize))
                    = FMul(camera.half_view, Num(camera.vsize))
        /\ camera.hsize < camera.vsize =>
              /\ camera.half_height = camera.half_view
              /\ FMul(camera.half_width, Num(camera.vsize))
                    = FMul(camera.half_view, Num(camera.hsize))
        /\ FMul(camera.pixel_size, Num(camera.hsize)) = FMul(camera.half_width, Num(2))
        /\ FMul(camera.pixel_size, Num(camera.vsize)) = FMul(camera.half_height, Num(2))

\* A camera higher than wide, of 1 x 2 pixels and half_view 3/2, whose canvas is
\* 3/2 wide and 3 high.
C19_Witness ==
    /\ unit = "camera"
    /\ camera.hsize = 1
    /\ camera.vsize = 2
    /\ camera.half_view = Q(3, 2)
    /\ camera.half_width = Q(3, 4)
    /\ camera.half_height = Q(3, 2)
    /\ camera.pixel_size = Q(3, 2)

\* A ray that meets the spheres at the origin and a ray that passes beside them
ProbeRays ==
    {from_triplets(<<Zero, Zero, Num(-5)>>, <<Zero, Zero, One>>),
     from_triplets(<<Zero, Num(3), Num(-5)>>, <<Zero, Zero, One>>)}

\* C20 as stated: whenever the view transformation or the transform of a shape
\* has no inverse, render fails.
C20_RenderFailsWithoutInverse ==
    (unit = "camera" /\ render_out # Pending /\ ~AllInvertible) => render_out.panicked

\* C20, for a camera with at least one pixel: when the view transformation or
\* the transform of a shape has no inverse, render fails and returns no canvas;
\* and in a world with a shape whose transform has no inverse, color_at fails
\* for every ray, whatever the other shapes are.
C20_RenderOfPixelsFailsWithoutInverse ==
    unit = "camera" =>
        /\ (render_out # Pending /\ ~AllInvertible
               /\ camera.hsize > 0 /\ camera.vsize > 0) => render_out.panicked
        /\ (render_out # Pending
               /\ \E k \in 1..Len(world.objects) :
                      ~invertible(world.objects[k].transform)) =>
              \A r \in ProbeRays :
                  \A found \in ColorAtOutcomes(debug_assertions, world, r) :
                      found.panicked

\* A render of at least one pixel through an invertible view failed in a world
\* of a sphere and, after it, a sphere whose transform has no inverse.
C20_Witness ==
    /\ unit = "camera"
    /\ render_out # Pending
    /\ render_out.panicked
    /\ camera.hsize > 0
    /\ camera.vsize > 0
    /\ invertible(camera.transform)
    /\ Len(world.objects) = 2
    /\ invertible(world.objects[1].transform)
    /\ ~invertible(world.objects[2].transform)

----------------------------------------------------------------------------
(* Normals and computations: a run makes one call of Shape::normal_at or of
   Intersection::prepare_computations on a sphere. *)

\* Points of the unit sphere, and its centre
SpherePoints ==
    {new_point(Zero, Zero, One), new_point(Zero, Zero, Num(-1)),
     new_point(Zero, One, Zero), new_point(Zero, Num(-1), Zero),
     new_point(One, Zero, Zero), new_point(Q(3, 5), Q(4, 5), Zero),
     new_point(Q(-4, 5), Zero, Q(3, 5)), ORIGIN}

\* Transforms of the sphere: moved, grown, squeezed, squeezed and moved, and
\* flattened, which has no inverse
SphereTransforms ==
    {Identity(4), translation(Zero, One, Zero), scaling(Num(2), Num(2), Num(2)),
     scaling(One, Q(1, 2), One),
     MatrixMul(translation(Zero, Zero, One), scaling(One, One, Q(1, 2))),
     scaling(One, One, Zero)}

\* The rays prepare_computations is given: along the z axis from before the
\* sphere and from its centre, and one whose direction has w = 0.5
ProbeOrigins == {new_point(Zero, Zero, Num(-5)), ORIGIN}

ProbeDirections == {new_vector(Zero, Zero, One), TupleNew(Zero, Zero, One, Q(1, 2))}

ProbeDistances == {Num(4), Num(5), Num(6), One, Num(-1), NaN}

\* The normal before it is normalized: transpose(inverse) * (inverse * pt - ORIGIN)
\* with w set to 0
RawNormal(transform, pt) ==
    Let(inverted(transform), LAMBDA it :
        TupleSet(MatrixMulTuple(transposed(it), TupleSub(MatrixMulTuple(it, pt), ORIGIN)),
                 3, Zero))

InitShade ==
    /\ unit = "shade"
    /\ steps = 0
    /\ debug_assertions \in BOOLEAN
    /\ call = Pending
    /\ call_out = Pending
    /\ HitIdle /\ CellsIdle /\ MulIdle /\ SquareIdle /\ TupleIdle /\ ShapeIdle
    /\ LightIdle /\ WorldIdle /\ CanvasIdle /\ CameraIdle

\* Shape::with_transform_and_material(Sphere, transform, default).normal_at(&pt),
\* for the points whose normal has a magnitude that is a value of this model
NormalAt(transform, pt) ==
    /\ unit = "shade"
    /\ call = Pending
    /\ invertible(transform) => ExactSqrt(dot(RawNormal(transform, pt), RawNormal(transform, pt)))
    /\ call' = [done |-> TRUE, fn |-> "normal_at", args |-> <<transform, pt>>]
    /\ call_out' = normal_at(debug_assertions,
                             with_transform_and_material("Sphere", transform,
                                                         MaterialDefault), pt)
    /\ UNCHANGED <<unit, steps, debug_assertions, hitVars, cellVars, mulVars, invVars,
                   tupleVars, shapeVars, lightVars, worldVars, canvasVars, cameraVars>>

\* Intersection { shape, distance }.prepare_computations(&Ray::new(origin, direction)),
\* shape being a sphere with the transform
Prepare(transform, distance, origin, direction) ==
    /\ unit = "shade"
    /\ call = Pending
    /\ RayNew(debug_assertions, origin, direction) # Panic
    /\ call' = [done |-> TRUE, fn |-> "prepare_computations",
                args |-> <<transform, distance, RayNew(debug_assertions, origin, direction)>>]
    /\ call_out' = prepare_computations(debug_assertions,
                       <<with_transform_and_material("Sphere", transform, MaterialDefault)>>,
                       Intersection(distance, 1),
                       RayNew(debug_assertions, origin, direction))
    /\ UNCHANGED <<unit, steps, debug_assertions, hitVars, cellVars, mulVars, invVars,
                   tupleVars, shapeVars, lightVars, worldVars, canvasVars, cameraVars>>

NextShade ==
    \/ \E transform \in SphereTransforms, obj \in SpherePoints :
          NormalAt(transform, MatrixMulTuple(transform, obj))
    \/ \E transform \in SphereTransforms : NormalAt(transform, new_vector(Zero, One, Zero))
    \/ \E transform \in {Identity(4), scaling(Num(2), Num(2), Num(2)),
                         translation(Zero, Zero, One)},
          distance \in ProbeDistances, origin \in ProbeOrigins,
          direction \in ProbeDirections :
          Prepare(transform, distance, origin, direction)

SpecShade == InitShade /\ [][NextShade]_vars

\* The call made was normal_at on a sphere with an invertible transform, and it
\* returned
NormalReturned ==
    /\ unit = "shade"
    /\ call # Pending
    /\ call.fn = "normal_at"
    /\ invertible(call.args[1])
    /\ call_out # Panic

\* t is the vector raw divided by its magnitude
IsNormalized(t, raw) ==
    /\ W(t) = Zero
    /\ \A i \in 1..3 : FMul(t[i], magnitude(raw)) = raw[i]
    /\ dot(t, t) = One

\* C22: normal_at returns a vector, w exactly 0, for every invertible transform
\* of the shape, which is transpose(inverse) * (inverse * world_point - origin),
\* its w set to 0, divided by its magnitude.
C22_NormalAtIsVector ==
    NormalReturned => IsNormalized(call_out, RawNormal(call.args[1], call.args[2]))

\* What C22 states holds of every point but the one the transform sends the
\* centre of the sphere to, where the normal before normalization is zero.
NormalAtIsVectorOffCentre ==
    (NormalReturned /\ magnitude(RawNormal(call.args[1], call.args[2])) # Zero) =>
        IsNormalized(call_out, RawNormal(call.args[1], call.args[2]))

\* normal_at returned a vector on a moved sphere, where the transposed inverse
\* gives a w that is not 0.
NormalOnMovedSphere ==
    /\ NormalReturned
    /\ call_out = new_vector(Zero, One, Zero)
    /\ Let(inverted(call.args[1]), LAMBDA it :
           W(MatrixMulTuple(transposed(it),
                            TupleSub(MatrixMulTuple(it, call.args[2]), ORIGIN))) # Zero)

\* The call made was prepare_computations, and it returned
Prepared ==
    /\ unit = "shade"
    /\ call # Pending
    /\ call.fn = "prepare_computations"
    /\ call_out # Panic

\* What normal_at gives at the point of the ray at the distance of the call
NormalAtPoint ==
    normal_at(debug_assertions,
              with_transform_and_material("Sphere", call.args[1], MaterialDefault),
              TupleAdd(call.args[3].origin, TupleScale(call.args[3].direction, call.args[2])))

\* C28: prepare_computations gives point = ray.position(distance), eye = -direction,
\* the object and the distance of the intersection, inside exactly when
\* dot(normal_at(point), eye) < 0, the normal negated exactly when inside, and
\* over_point = point + normal * EPSILON with the normal after its negation.
C28_ComputationsPrepared ==
    Prepared =>
        /\ call_out.point =
              TupleAdd(call.args[3].origin, TupleScale(call.args[3].direction, call.args[2]))
        /\ call_out.eye_vec = TupleNeg(call.args[3].direction)
        /\ call_out.object = 1
        /\ call_out.distance = call.args[2]
        /\ call_out.inside <=> FLt(dot(NormalAtPoint, call_out.eye_vec), Zero)
        /\ call_out.inside => call_out.normal_vec = TupleNeg(NormalAtPoint)
        /\ ~call_out.inside => call_out.normal_vec = NormalAtPoint
        /\ call_out.over_point =
              TupleAdd(call_out.point, TupleScale(call_out.normal_vec, EPSILON))

\* From the centre of the sphere, the intersection at distance 1 was found to be
\* inside, with the normal turned towards the eye and over_point inside the
\* sphere.
C28_Witness ==
    /\ Prepared
    /\ call.args[1] = Identity(4)
    /\ call.args[3].origin = ORIGIN
    /\ call.args[2] = One
    /\ call_out.inside
    /\ call_out.point = new_point(Zero, Zero, One)
    /\ call_out.normal_vec = new_vector(Zero, Zero, Num(-1))
    /\ call_out.over_point = new_point(Zero, Zero, FSub(One, EPSILON))

\* C30: the computations prepare_computations returns have
\* dot(normal_vec, eye_vec) >= 0, normal_vec and eye_vec with w = 0, and point
\* and over_point with w = 1, for every intersection and ray.
C30_NormalFacesEye ==
    Prepared =>
        /\ FLe(Zero, dot(call_out.normal_vec, call_out.eye_vec))
        /\ W(call_out.normal_vec) = Zero
        /\ W(call_out.eye_vec) = Zero
        /\ W(call_out.point) = One
        /\ W(call_out.over_point) = One

\* What C30 states holds when the direction of the ray has w = 0, the distance
\* is a number and the point is not where the centre of the sphere is.
NormalFacesEyeOfValidInput ==
    (Prepared /\ W(call.args[3].direction) = Zero /\ ~IsNaN(call.args[2])
        /\ ~IsNaN(call_out.normal_vec[1])) =>
        /\ FLe(Zero, dot(call_out.normal_vec, call_out.eye_vec))
        /\ W(call_out.normal_vec) = Zero
        /\ W(call_out.eye_vec) = Zero
        /\ W(call_out.point) = One
        /\ W(call_out.over_point) = One

----------------------------------------------------------------------------
(* Shadows *)

\* The call made was point_status, and it returned
StatusReturned ==
    /\ unit = "call"
    /\ call # Pending
    /\ call.fn = "point_status"
    /\ call_out # Panic

\* The distances at which the ray from pt towards the point at meets the
\* shapes of objects
ShadowDistances(at, objects, pt) ==
    Let(RayNew(FALSE, pt, normalized(TupleSub(at, pt))), LAMBDA shadow_ray :
        UNION {Let(ShapeIntersections(FALSE, objects[k], k, shadow_ray), LAMBDA found :
                   {found[j].distance : j \in 1..Len(found)}) : k \in 1..Len(objects)})

\* C26: point_status is InShadow exactly when a shape meets the ray from the
\* point towards the light at a nonnegative distance strictly less than the
\* distance from the point to the light; intersections behind the point, and
\* at or beyond the light, leave the point InLight, and so does a world
\* without shapes.
C26_ShadowBetweenPointAndLight ==
    StatusReturned =>
        /\ call_out.status \in {"InShadow", "InLight"}
        /\ call_out.status = "InShadow" <=>
              \E d \in ShadowDistances(call.args[1], call.args[2], call.args[3]) :
                  /\ FLe(Zero, d)
                  /\ FLt(d, magnitude(TupleSub(call.args[1], call.args[3])))
        /\ call.args[2] = <<>> => call_out.status = "InLight"

\* The sphere is behind the point as seen from the light's side: both
\* intersections are at negative distances and the point is InLight.
C26_Witness ==
    /\ StatusReturned
    /\ call.args[1] = new_point(Zero, Zero, Num(-10))
    /\ call.args[3] = new_point(Zero, Zero, Num(-5))
    /\ ShadowDistances(call.args[1], call.args[2], call.args[3]) = {Num(-6), Num(-4)}
    /\ call_out.status = "InLight"

\* The sphere is between the point and the light: the point is InShadow.
ShadowedBySphere ==
    /\ StatusReturned
    /\ call.args[1] = new_point(Zero, Zero, Num(5))
    /\ call.args[3] = new_point(Zero, Zero, Num(-5))
    /\ call_out.status = "InShadow"

\* The light is where the ray enters the sphere, at the distance of the light
\* exactly: the point is InLight.
SphereAtTheLight ==
    /\ StatusReturned
    /\ call.args[1] = new_point(Zero, Zero, Num(-1))
    /\ call.args[3] = new_point(Zero, Zero, Num(-5))
    /\ Num(4) \in ShadowDistances(call.args[1], call.args[2], call.args[3])
    /\ call_out.status = "InLight"

----------------------------------------------------------------------------
(* Shading *)

\* color_at returned the colour of an intersection
Shaded ==
    /\ unit = "world"
    /\ world_out # Pending
    /\ ~world_out.panicked
    /\ world_out.xs # <<>>

\* The computations of the intersection color_at shaded
ShadedComputations ==
    prepare_computations(debug_assertions, world.objects, world_out.xs[1], world_ray)

\* Lighting evaluated at pt, with the shadow status of pt, and with the material,
\* light, eye and normal of the intersection shaded
LitAt(pt) ==
    lighting(world.objects[ShadedComputations.object].material, world.light, pt,
             ShadedComputations.eye_vec, ShadedComputations.normal_vec,
             point_status(debug_assertions, world, pt).status)

\* C27: shade_hit evaluates lighting with the material of computations.object,
\* the light of the world, the eye and the normal of the computations, and with
\* computations.over_point both as the point shaded and as the point whose
\* shadow status is asked.
C27_ShadeHitUsesOverPoint ==
    Shaded => world_out.color = LitAt(ShadedComputations.over_point)

\* A sphere was shaded where it faces the light: over_point is InLight, the
\* point of the surface itself would be found in the shadow of its own sphere,
\* and the colour is not the one lighting gives there.
C27_Witness ==
    /\ Shaded
    /\ point_status(debug_assertions, world, ShadedComputations.over_point).status = "InLight"
    /\ point_status(debug_assertions, world, ShadedComputations.point).status = "InShadow"
    /\ world_out.color # LitAt(ShadedComputations.point)

----------------------------------------------------------------------------
(* Independence of the pixels: a run builds a camera and a world and computes
   the pixels one by one, as the loops of render do, in the order of render and
   in another order. *)

MaxReplayWidth == 3

MaxReplayHeight == 2

\* Which of two intersections of equal distance the sort of one build of the
\* program puts first: the one gathered first, or the one gathered last.
TiePolicies == {"kept", "reversed"}

\* xs.sort_unstable_by(..) in one build of the program: the list it leaves depends
\* on the list it is given and on nothing else.
RECURSIVE sort_unstable_by(_, _)
sort_unstable_by(p, g) ==
    IF g = <<>> THEN <<>>
    ELSE Let(MinimalPositions(g), LAMBDA ks :
         Let(IF p = "kept" THEN CHOOSE k \in ks : \A j \in ks : k <= j
             ELSE CHOOSE k \in ks : \A j \in ks : j <= k, LAMBDA k :
             <<g[k]>> \o sort_unstable_by(p, Without(g, k))))

\* World::color_at in the build whose sort is sort_unstable_by(p, _): the colour,
\* or Panic
color_at_of_build(p, debug, w, r) ==
    Then(Gathered(debug, w, r, Len(w.objects)), LAMBDA g :
        IF SortPanics(g) THEN Panic
        ELSE color_at(debug, w, r, sort_unstable_by(p, g)))

\* A pass that adds the colour to the one the pixel holds.
ComputePixelBlending(p, debug, cam, w, c, n) ==
    Let(LoopPixel(cam, n), LAMBDA xy :
    Then(ray_for_pixel(debug, cam, xy[1], xy[2]), LAMBDA r :
    Then(color_at_of_build(p, debug, w, r), LAMBDA color :
        IF CanvasPanics(c, xy[1], xy[2]) THEN Panic
        ELSE CanvasSet(c, xy[1], xy[2], ColorAdd(CanvasGet(c, xy[1], xy[2]), color)))))

\* The body of the loops of render for the n-th pixel of the row-major order, on
\* the canvas c: the canvas it leaves, or Panic
ComputePixel(p, debug, cam, w, c, n) ==
    Let(LoopPixel(cam, n), LAMBDA xy :
    Then(ray_for_pixel(debug, cam, xy[1], xy[2]), LAMBDA r :
    Then(color_at_of_build(p, debug, w, r), LAMBDA color :
        IF CanvasPanics(c, xy[1], xy[2]) THEN Panic
        ELSE CanvasSet(c, xy[1], xy[2], color))))

\* The body of the loops run for the pixels order[k], order[k + 1], ..
RECURSIVE ComputedInOrder(_, _, _, _, _, _, _)
ComputedInOrder(p, debug, cam, w, order, k, c) ==
    IF c # Panic /\ k <= Len(order)
    THEN ComputedInOrder(p, debug, cam, w, order, k + 1,
                         ComputePixel(p, debug, cam, w, c, order[k]))
    ELSE c

\* Orders in which the pixels are computed: the order of render, its reverse,
\* column after column, and every pixel a second time
PixelOrder(cam, kind) ==
    Let(cam.hsize * cam.vsize, LAMBDA n :
        CASE kind = "row_major" -> [k \in 1..n |-> k]
          [] kind = "reversed" -> [k \in 1..n |-> n + 1 - k]
          [] kind = "by_columns" ->
                [k \in 1..n |-> ((k - 1) % cam.vsize) * cam.hsize + ((k - 1) \div cam.vsize) + 1]
          [] kind = "twice" -> [k \in 1..(2 * n) |-> IF k <= n THEN k ELSE 2 * n + 1 - k])

\* The worlds whose pixels are computed: no sphere, two spheres in the same
\* place, and a world with a sphere without an inverse
ReplayWorlds ==
    {<<>>, <<OuterSphere, PlainSphere>>, <<OuterSphere, FlatSphere>>}

\* The eye five units before the origin, and a view transformation without an
\* inverse
ReplayTransforms == {translation(Zero, Zero, Num(-5)), scaling(One, Zero, One)}

InitReplay ==
    /\ unit = "replay"
    /\ steps = 0
    /\ debug_assertions \in BOOLEAN
    /\ \E hsize \in 0..MaxReplayWidth, vsize \in 0..MaxReplayHeight, half_view \in HalfViews,
          transform \in ReplayTransforms :
          /\ camera = with_transform(hsize, vsize, half_view, transform)
          /\ ExactRays(camera)
    /\ \E objects \in ReplayWorlds :
          world = [light |-> PointLightNew(WHITE, new_point(Zero, Zero, Num(-10))),
                   objects |-> objects]
    /\ world_ray = Idle
    /\ world_out = Idle
    /\ render_out = Idle
    /\ replay = Pending
    /\ HitIdle /\ CellsIdle /\ MulIdle /\ SquareIdle /\ TupleIdle /\ ShapeIdle /\ LightIdle
    /\ CallIdle /\ CanvasIdle

\* The pixels of the camera computed one by one with ray_for_pixel, color_at and
\* canvas.set, in the order of render and in another order, by one build of the
\* program; the world is the one the calls leave
Replay(p, kind) ==
    /\ unit = "replay"
    /\ replay = Pending
    /\ replay' = [done |-> TRUE, policy |-> p, kind |-> kind,
                  row_major |-> ComputedInOrder(p, debug_assertions, camera, world,
                                    PixelOrder(camera, "row_major"), 1,
                                    CanvasNew(camera.hsize, camera.vsize)),
                  other |-> ComputedInOrder(p, debug_assertions, camera, world,
                                PixelOrder(camera, kind), 1,
                                CanvasNew(camera.hsize, camera.vsize))]
    /\ UNCHANGED <<unit, steps, debug_assertions, worldVars, camera, render_out, hitVars, cellVars, mulVars, invVars,
                   tupleVars, shapeVars, lightVars, callVars, canvasVars>>

NextReplay ==
    \E p \in TiePolicies, kind \in {"reversed", "by_columns", "twice"} : Replay(p, kind)

SpecReplay == InitReplay /\ [][NextReplay]_vars

\* C21: render and color_at leave the World as it was, and the colour of a
\* pixel depends on the World and on the ray of the pixel only: the pixels
\* computed in another order, or computed twice, give the canvas of the
\* row-major order, which is a canvas render returns.
C21_PixelsCommute ==
    /\ []((unit = "replay" /\ replay # Pending) =>
             /\ replay.other = replay.row_major
             /\ replay.row_major # Panic =>
                   \E st \in render(debug_assertions, camera, world) :
                       st # Panic /\ st.canvas = replay.row_major)
    /\ [][replay' # replay => world' = world]_vars

\* Three pixels in a row were computed from the last to the first, in a world
\* of two spheres in the same place, by a build whose sort puts the sphere
\* gathered last first: the middle pixel has the colour of that sphere, as in
\* the row-major order, and not the colour of the other sphere.
C21_Witness ==
    /\ unit = "replay"
    /\ replay # Pending
    /\ replay.kind = "reversed"
    /\ replay.policy = "reversed"
    /\ camera.hsize = 3
    /\ camera.vsize = 1
    /\ world.objects = <<OuterSphere, PlainSphere>>
    /\ replay.other # Panic
    /\ CanvasGet(replay.other, 1, 0) # BLACK
    /\ CanvasGet(replay.other, 1, 0) =
          color_at_of_build("reversed", debug_assertions, world,
                            ray_for_pixel(debug_assertions, camera, 1, 0))
    /\ CanvasGet(replay.other, 1, 0) #
          color_at_of_build("kept", debug_assertions, world,
                            ray_for_pixel(debug_assertions, camera, 1, 0))

====
